---------------------------- MODULE Spec2Model ----------------------------
(***************************************************************************)
(* Model of the MQTT client (app/core/mqtt_client.py) and of the sensor    *)
(* ingestion pipeline (app/services/mqtt_service.py) of solar-panel-api.   *)
(*                                                                         *)
(* Strings that are split on "/" (topics, patterns) are sequences of       *)
(* symbols.  "/", "+" and "#" are the symbols the code looks at; every     *)
(* other symbol stands for a run of ordinary characters.                   *)
(*                                                                         *)
(* Ten specifications share the variables:                                 *)
(*   SpecMatch   the pure function _topic_matches on bounded strings,      *)
(*   Spec        the client: connection state, registry, dispatch,         *)
(*               publish,                                                  *)
(*   SpecPipe    one inbound message through _on_message and               *)
(*               handle_solar_panel_data with every collaborator outcome,  *)
(*   SpecRace    a caller thread and the loop thread, one access to the    *)
(*               shared state at a time,                                   *)
(*   SpecModule  the module-level client of get_mqtt_client and close_mqtt,*)
(*   SpecSession the client over several connections, with patterns the    *)
(*               default topic does not cover and a handler that raises,   *)
(*   SpecPanel   the panel id derived from a topic, on bounded topics,     *)
(*   SpecGet     two threads inside get_mqtt_client or init_mqtt, one      *)
(*               access to the global at a time,                           *)
(*   SpecShare   one inbound message when a second handler is registered   *)
(*               for its topic,                                            *)
(*   SpecQueue   messages that arrive while the loop thread is inside a    *)
(*               handler.                                                  *)
(***************************************************************************)
EXTENDS Integers, Sequences, FiniteSets, TLC

VARIABLES
    \* ---- SpecMatch ----
    mTopic,             \* topic handed to _topic_matches
    mPattern,           \* pattern handed to _topic_matches; under SpecPanel
                        \* the panel id derived from mTopic
    mResult,            \* "none" before the call, then "True" or "False";
                        \* under SpecPanel "done"
    \* ---- MQTTClient fields ----
    connected,          \* self.connected
    connection_event,   \* self.connection_event (threading.Event) is set
    message_callbacks,  \* self.message_callbacks, an insertion-ordered dict
    \* ---- transport (paho client) ----
    transport,          \* "none" | "awaiting" | "session" | "refused"
    loop,               \* background network loop thread is running
    loopPc,             \* "idle" | "on_connect" | "on_message": position of
                        \* the loop thread
    sent,               \* ids of messages handed to client.publish
    \* ---- caller threads ----
    connectPc,          \* "idle" | "waiting": a caller inside connect()
    last,               \* the last completed call or callback and its outcome
    nextId,             \* id of the next publish call
    rejected,           \* ids of publish calls that returned False unconnected
    requested,          \* patterns the broker holds for the connection in
                        \* use: those client.subscribe was called with, and
                        \* accepted, since that connection was opened
    eventAtWait,        \* the event was set when the running connect() call
                        \* reached its wait
    ackSinceCall,       \* a reason-0 acknowledgment was processed since the
                        \* running connect() call started
    sinceDisconnect,    \* disconnect() returned on a client holding a session
                        \* and no reason-0 acknowledgment was processed since
    \* ---- pipeline ----
    pipe,               \* the last message ingested and what became of it
    \* ---- the threads step by step (SpecRace) ----
    caller,             \* the call a caller thread is inside, and how far
    dispatch,           \* the message _on_message is handling, and how far
    \* ---- module globals of mqtt_client.py ----
    mqtt_client,        \* the global mqtt_client: 0 for None, else the
                        \* number of the MQTTClient instance it holds
    instances,          \* MQTTClient instances created so far
    getters,            \* the threads inside get_mqtt_client() or
                        \* init_mqtt(), and how far each is (SpecGet)
    \* ---- the messages waiting for the loop thread (SpecQueue) ----
    inbound             \* the messages received and not yet dispatched, the
                        \* one being dispatched, and the journal of what
                        \* the loop thread did

vars == <<mTopic, mPattern, mResult, connected, connection_event,
          message_callbacks, transport, loop, loopPc, sent,
          connectPc, last, nextId, rejected, requested, eventAtWait,
          ackSinceCall, sinceDisconnect, pipe, caller, dispatch, mqtt_client, instances,
          getters, inbound>>

matchVars == <<mTopic, mPattern, mResult>>

raceVars == <<caller, dispatch>>

moduleVars == <<mqtt_client, instances, getters>>

clientVars == <<connected, connection_event, message_callbacks, transport,
                loop, loopPc, sent, connectPc, last, nextId,
                rejected, requested, eventAtWait, ackSinceCall,
                sinceDisconnect>>

-----------------------------------------------------------------------------
(* Bounds *)

MaxStrLen == 4          \* longest string drawn for _topic_matches
MaxPublish == 1         \* publish calls per behaviour
MaxInstances == 3       \* MQTTClient instances created per behaviour
MaxTopicLen == 5        \* longest topic drawn for the panel id

-----------------------------------------------------------------------------
(* Strings and str.split('/') *)

Sym == {"a", "/", "+", "#"}

Strs(n) == UNION {[1..k -> Sym] : k \in 0..n}

HasSep(s) == \E i \in 1..Len(s) : s[i] = "/"

FirstSep(s) == CHOOSE i \in 1..Len(s) :
                  s[i] = "/" /\ \A j \in 1..(i-1) : s[j] # "/"

RECURSIVE Split(_)
Split(s) ==
    IF ~HasSep(s) THEN <<s>>
    ELSE LET i == FirstSep(s)
         IN  <<SubSeq(s, 1, i-1)>> \o Split(SubSeq(s, i+1, Len(s)))

-----------------------------------------------------------------------------
(* MQTTClient._topic_matches *)

RECURSIVE MatchFrom(_, _, _)
MatchFrom(topic_parts, pattern_parts, i) ==
    IF i > Len(pattern_parts)
        THEN Len(topic_parts) = Len(pattern_parts)
    ELSE IF i > Len(topic_parts)
        THEN FALSE
    ELSE IF pattern_parts[i] = <<"#">>
        THEN TRUE
    ELSE IF pattern_parts[i] # <<"+">> /\ pattern_parts[i] # topic_parts[i]
        THEN FALSE
    ELSE MatchFrom(topic_parts, pattern_parts, i+1)

\* variant: "+" consumes the rest of the topic
RECURSIVE MatchFromPlusSpans(_, _, _)
MatchFromPlusSpans(topic_parts, pattern_parts, i) ==
    IF i > Len(pattern_parts)
        THEN Len(topic_parts) = Len(pattern_parts)
    ELSE IF i > Len(topic_parts)
        THEN FALSE
    ELSE IF pattern_parts[i] = <<"#">> \/ pattern_parts[i] = <<"+">>
        THEN TRUE
    ELSE IF pattern_parts[i] # topic_parts[i]
        THEN FALSE
    ELSE MatchFromPlusSpans(topic_parts, pattern_parts, i+1)

TopicMatchesPlusSpans(topic, pattern) ==
    MatchFromPlusSpans(Split(topic), Split(pattern), 1)

\* variant: "#" also matches the level above it, as a broker has it
TopicMatchesHashParent(topic, pattern) ==
    \/ MatchFrom(Split(topic), Split(pattern), 1)
    \/ /\ Len(pattern) >= 2
       /\ SubSeq(pattern, Len(pattern) - 1, Len(pattern)) = <<"/", "#">>
       /\ topic = SubSeq(pattern, 1, Len(pattern) - 2)

TopicMatches(topic, pattern) == MatchFrom(Split(topic), Split(pattern), 1)

-----------------------------------------------------------------------------
(* SpecMatch: _topic_matches applied to every pair of bounded strings *)

InitMatch ==
    /\ mTopic \in Strs(MaxStrLen)
    /\ mPattern \in Strs(MaxStrLen)
    /\ mResult = "none"

CallTopicMatches ==
    /\ mResult = "none"
    /\ mResult' = IF TopicMatches(mTopic, mPattern) THEN "True" ELSE "False"
    /\ UNCHANGED <<mTopic, mPattern>>

-----------------------------------------------------------------------------
(* Topics, patterns and callbacks of the client *)

None == "None"

TopicData == <<"solar", "/", "panel", "/", "panel1", "/", "data">>
TopicPanel == <<"solar", "/", "panel">>
TopicAlert == <<"solar", "/", "alerts", "/", "a1", "/", "message">>

\* settings.MQTT_TOPIC_SOLAR_PANEL
MQTT_TOPIC_SOLAR_PANEL == <<"solar", "/", "panel", "/", "#">>

Topics == {TopicData, TopicPanel, TopicAlert}
Patterns == {TopicData, MQTT_TOPIC_SOLAR_PANEL}

\* "solar" is MQTTService.handle_solar_panel_data; "h1" and "h2" are other
\* callbacks that return normally, as every handler of mqtt_service.py does.
Callbacks == {"h1", "h2"}

\* what the transport does with a request: it accepts it, answers with an
\* error code, or the call raises
Outcomes == {"ok", "error", "raises"}

-----------------------------------------------------------------------------
(* self.message_callbacks: a dict, kept as the sequence of its items in     *)
(* insertion order                                                          *)

Keys(d) == {d[i].topic : i \in 1..Len(d)}

IndexOf(d, k) == CHOOSE i \in 1..Len(d) : d[i].topic = k

DictGet(d, k) == d[IndexOf(d, k)].callback

\* variant: an assignment adds an item whether or not the key is there
DictSetAppends(d, k, v) ==
    Append(d, [topic |-> k, callback |-> v])

DictSet(d, k, v) ==
    IF k \in Keys(d)
        THEN [d EXCEPT ![IndexOf(d, k)].callback = v]
        ELSE Append(d, [topic |-> k, callback |-> v])

DictDel(d, k) == SelectSeq(d, LAMBDA e : e.topic # k)

-----------------------------------------------------------------------------
(* MQTTClient.subscribe, unsubscribe, publish as functions of the client    *)
(* state and of what the transport answers                                  *)

\* variant: registers the callback without looking at the connected flag or
\* at the transport's answer
SubscribeAlwaysRegisters(conn, cbs, topic, callback, outcome) ==
    [result |-> conn /\ outcome = "ok",
     issued |-> conn,
     callbacks |-> IF callback # None THEN DictSet(cbs, topic, callback)
                   ELSE cbs]

\* variant: the callback argument is stored whether or not one was given
SubscribeStoresNone(conn, cbs, topic, callback, outcome) ==
    IF ~conn
        THEN [result |-> FALSE, issued |-> FALSE, callbacks |-> cbs]
    ELSE IF outcome = "ok"
        THEN [result |-> TRUE, issued |-> TRUE,
              callbacks |-> DictSet(cbs, topic, callback)]
    ELSE [result |-> FALSE, issued |-> TRUE, callbacks |-> cbs]

\* lines 224-247
Subscribe(conn, cbs, topic, callback, outcome) ==
    IF ~conn
        THEN [result |-> FALSE, issued |-> FALSE, callbacks |-> cbs]
    ELSE IF outcome = "ok"
        THEN [result |-> TRUE, issued |-> TRUE,
              callbacks |-> IF callback # None
                            THEN DictSet(cbs, topic, callback)
                            ELSE cbs]
    ELSE [result |-> FALSE, issued |-> TRUE, callbacks |-> cbs]

\* variant: the request is sent but the registration is kept
UnsubscribeKeepsEntry(conn, cbs, topic, outcome) ==
    [result |-> conn /\ outcome = "ok",
     issued |-> conn,
     callbacks |-> cbs]

Unsubscribe(conn, cbs, topic, outcome) ==
    IF ~conn
        THEN [result |-> FALSE, issued |-> FALSE, callbacks |-> cbs]
    ELSE IF outcome = "ok"
        THEN [result |-> TRUE, issued |-> TRUE,
              callbacks |-> IF topic \in Keys(cbs) THEN DictDel(cbs, topic)
                            ELSE cbs]
    ELSE [result |-> FALSE, issued |-> TRUE, callbacks |-> cbs]

\* variant: hands the message to the transport whatever the connected flag
PublishUnguarded(conn, outcome) ==
    [result |-> conn /\ outcome = "ok", issued |-> outcome # "raises"]

\* issued: the message was handed to client.publish
Publish(conn, outcome) ==
    IF ~conn
        THEN [result |-> FALSE, issued |-> FALSE]
    ELSE IF outcome = "raises"
        THEN [result |-> FALSE, issued |-> FALSE]
    ELSE [result |-> outcome = "ok", issued |-> TRUE]

-----------------------------------------------------------------------------
(* MQTTClient._on_message: which callbacks one inbound message invokes      *)

ExactPass(cbs, topic) ==
    IF topic \in Keys(cbs)
        THEN <<[key |-> topic, callback |-> DictGet(cbs, topic)]>>
        ELSE <<>>

RECURSIVE WildcardPass(_, _, _)
WildcardPass(cbs, topic, i) ==
    IF i > Len(cbs) THEN <<>>
    ELSE (IF TopicMatches(topic, cbs[i].topic)
              THEN <<[key |-> cbs[i].topic, callback |-> cbs[i].callback]>>
              ELSE <<>>)
         \o WildcardPass(cbs, topic, i+1)

\* variant: first match wins
DispatchFirstMatch(cbs, topic) ==
    IF topic \in Keys(cbs) THEN ExactPass(cbs, topic)
    ELSE WildcardPass(cbs, topic, 1)

Dispatch(cbs, topic) == ExactPass(cbs, topic) \o WildcardPass(cbs, topic, 1)

-----------------------------------------------------------------------------
(* Python values decoded from a payload.  A dict is a function from its     *)
(* keys to their values; an absent key is outside its DOMAIN.               *)

RequiredFields == {"temperature", "humidity", "light", "R", "G", "B"}

Reserved == {<<"data">>, <<"status">>, <<"command">>}

EmptyDict == [k \in {} |-> None]

DGet(d, k) == IF k \in DOMAIN d THEN d[k] ELSE None

DPut(d, k, v) == [x \in (DOMAIN d) \cup {k} |-> IF x = k THEN v ELSE d[x]]

Truthy(v) == v # None /\ v # ""

\* Python "a or b"
PyOr(a, b) == IF Truthy(a) THEN a ELSE b

NoText == [json |-> FALSE, value |-> None]

PyDict(d) ==
    [type |-> "dict", d |-> d, items |-> {}, text |-> NoText, names |-> FALSE]

PyList(items) ==
    [type |-> "list", d |-> EmptyDict, items |-> items, text |-> NoText,
     names |-> FALSE]

\* a number, a boolean or null
PyScalar ==
    [type |-> "scalar", d |-> EmptyDict, items |-> {}, text |-> NoText,
     names |-> FALSE]

\* a str; text is what json.loads makes of it, names tells whether every
\* required field name occurs in it as a substring
PyStr(text, names) ==
    [type |-> "str", d |-> EmptyDict, items |-> {}, text |-> text,
     names |-> names]

JsonText(value) == [json |-> TRUE, value |-> value]

-----------------------------------------------------------------------------
(* MQTTService.handle_solar_panel_data *)

\* variant: a reserved last segment gives way to the one before it whenever
\* there is one
PanelIdOfTwoSegments(topic) ==
    LET topic_parts == Split(topic)
        n == Len(topic_parts)
    IN  IF /\ n >= 3
           /\ topic_parts[1] = <<"solar">>
           /\ topic_parts[2] = <<"panel">>
            THEN topic_parts[3]
        ELSE IF n >= 2
            THEN IF topic_parts[n] \notin Reserved THEN topic_parts[n]
                 ELSE topic_parts[n-1]
        ELSE <<"unknown">>

\* lines 173-185
PanelId(topic) ==
    LET topic_parts == Split(topic)
        n == Len(topic_parts)
    IN  IF /\ n >= 3
           /\ topic_parts[1] = <<"solar">>
           /\ topic_parts[2] = <<"panel">>
            THEN topic_parts[3]
        ELSE IF n >= 2
            THEN IF topic_parts[n] \notin Reserved THEN topic_parts[n]
                 ELSE IF n >= 3 THEN topic_parts[n-1] ELSE <<"unknown">>
        ELSE <<"unknown">>

\* line 192
ImageData(d) ==
    PyOr(PyOr(DGet(d, "image"), DGet(d, "image_path")), DGet(d, "image_base64"))

\* line 164: the required fields that are "not in data"; raising: data does
\* not support "in"
MissingFields(data) ==
    CASE data.type = "dict" -> RequiredFields \ DOMAIN data.d
      [] data.type = "list" -> RequiredFields \ data.items
      [] data.type = "str"  -> IF data.names THEN {} ELSE RequiredFields
      [] OTHER -> {}

SetDLNone(d) ==
    DPut(DPut(DPut(d, "dl_prediction", None), "dl_status", None),
         "dl_confidence", None)

\* variant: image_url is written with whatever the upload call gave
UploadStageWritesAnyOutcome(d, image_data, upload) ==
    IF Truthy(image_data)
        THEN DPut(d, "image_url", IF upload = "url" THEN "url" ELSE None)
        ELSE d

\* lines 195-210
UploadStage(d, image_data, upload) ==
    IF Truthy(image_data) /\ upload = "url"
        THEN DPut(d, "image_url", "url")
        ELSE d

\* lines 217-223 and 284-289
MLStage(d, ml) ==
    IF ml.ok
        THEN LET d1 == DPut(DPut(d, "ml_prediction", ml.ml_prediction),
                            "ml_confidence", ml.ml_confidence)
             IN  IF ml.ml_probability # None
                     THEN DPut(d1, "ml_probability", ml.ml_probability)
                     ELSE d1
        ELSE LET d1 == DPut(DPut(DPut(d, "ml_prediction", None),
                                 "ml_confidence", None),
                            "ml_probability", None)
             IN  SetDLNone(d1)

\* variant: the DL predictor is called for every image reference
DLCalledWhateverML(image_data, ml) ==
    Truthy(image_data)

\* variant: the DL predictor is called for every "dirty", image or not
DLCalledWhateverImage(image_data, ml) ==
    ml.ok /\ ml.ml_prediction = "dirty"

\* line 231: the DL predictor is called
DLCalled(image_data, ml) ==
    ml.ok /\ ml.ml_prediction = "dirty" /\ Truthy(image_data)

\* variant: the DL result settles the matter, the ML prediction follows it
DLFieldsResolve(d, dl) ==
    LET d1 == DPut(DPut(DPut(DPut(d, "dl_prediction", dl.dl_prediction),
                             "dl_status", dl.dl_status),
                        "dl_confidence", dl.dl_confidence),
                   "dl_predicted_class", dl.dl_predicted_class)
        d2 == IF dl.dl_probability # None
                  THEN DPut(d1, "dl_probability", dl.dl_probability)
                  ELSE d1
        d3 == IF dl.dl_class_probabilities # None
                  THEN DPut(d2, "dl_class_probabilities",
                            dl.dl_class_probabilities)
                  ELSE d2
    IN  DPut(d3, "ml_prediction", dl.dl_status)

\* lines 238-248
DLFields(d, dl) ==
    LET d1 == DPut(DPut(DPut(DPut(d, "dl_prediction", dl.dl_prediction),
                             "dl_status", dl.dl_status),
                        "dl_confidence", dl.dl_confidence),
                   "dl_predicted_class", dl.dl_predicted_class)
        d2 == IF dl.dl_probability # None
                  THEN DPut(d1, "dl_probability", dl.dl_probability)
                  ELSE d1
    IN  IF dl.dl_class_probabilities # None
            THEN DPut(d2, "dl_class_probabilities", dl.dl_class_probabilities)
            ELSE d2

\* variant: the DL fields are reset only where the DL predictor was tried
DLStageKeepsLeftOver(d, image_data, ml, dl) ==
    IF ~ml.ok THEN d
    ELSE IF DLCalled(image_data, ml)
        THEN IF dl.outcome = "result" THEN DLFields(d, dl) ELSE SetDLNone(d)
    ELSE d

\* variant: a DL predictor that fails leaves the record as it was
DLStageFailureKeeps(d, image_data, ml, dl) ==
    IF ~ml.ok THEN d
    ELSE IF DLCalled(image_data, ml)
        THEN IF dl.outcome = "result" THEN DLFields(d, dl) ELSE d
    ELSE SetDLNone(d)

\* lines 230-283, after MLStage
DLStage(d, image_data, ml, dl) ==
    IF ~ml.ok THEN d
    ELSE IF DLCalled(image_data, ml)
        THEN IF dl.outcome = "result" THEN DLFields(d, dl) ELSE SetDLNone(d)
    ELSE SetDLNone(d)

\* lines 295-297
Metadata(d, topic) ==
    DPut(DPut(DPut(d, "panel_id", PanelId(topic)), "timestamp", "now"),
         "topic", topic)

\* variant: a store call that raised is made once more
StoreStageRetries(d, db) ==
    [calls |-> IF db = "unavailable" THEN <<>>
               ELSE IF db = "raises" THEN <<"store", "store">>
               ELSE <<"store">>,
     handed |-> IF db = "unavailable" THEN <<>>
                ELSE IF db = "raises" THEN <<d, d>>
                ELSE <<d>>,
     stored |-> IF db = "ok" THEN <<d>> ELSE <<>>]

\* lines 300-314: with a record store, one add(data), whose exception is
\* logged; without one (db is None), no call
StoreStage(d, db) ==
    [calls |-> IF db # "unavailable" THEN <<"store">> ELSE <<>>,
     handed |-> IF db # "unavailable" THEN <<d>> ELSE <<>>,
     stored |-> IF db = "ok" THEN <<d>> ELSE <<>>]

\* the handler's body ran to its end: the stages called before the store
\* step, then what the store step did, st, with the record d
Persisted(d, stages, st) ==
    [data |-> PyDict(d), calls |-> stages \o st.calls, handed |-> st.handed,
     stored |-> st.stored, exc |-> "none"]

Quiet(data) ==
    [data |-> data, calls |-> <<>>, handed |-> <<>>, stored |-> <<>>,
     exc |-> "none"]

\* variant: validation lets a payload through whatever it lacks
HandleBodyNoValidation(topic, data, env) ==
    IF data.type # "dict"
        THEN [Quiet(data) EXCEPT !.exc = "AttributeError"]
    ELSE
        LET image_data == ImageData(data.d)
            d1 == UploadStage(data.d, image_data, env.upload)
            d2 == MLStage(d1, env.ml)
            d3 == DLStage(d2, image_data, env.ml, env.dl)
            d4 == Metadata(d3, topic)
        IN  Persisted(d4, <<"ml">>, StoreStage(d4, env.db))

\* lines 162-314 for the value data the handler works on
HandleBody(topic, data, env) ==
    IF data.type = "scalar"
        THEN [Quiet(data) EXCEPT !.exc = "TypeError"]
    ELSE IF MissingFields(data) # {}
        THEN Quiet(data)
    ELSE IF data.type # "dict"
        THEN [Quiet(data) EXCEPT !.exc = "AttributeError"]
    ELSE
        LET image_data == ImageData(data.d)
            d1 == UploadStage(data.d, image_data, env.upload)
            d2 == MLStage(d1, env.ml)
            d3 == DLStage(d2, image_data, env.ml, env.dl)
            d4 == Metadata(d3, topic)
            calls == (IF Truthy(image_data) THEN <<"upload">> ELSE <<>>)
                     \o <<"ml">>
                     \o (IF DLCalled(image_data, env.ml) THEN <<"dl">>
                         ELSE <<>>)
        IN  Persisted(d4, calls, StoreStage(d4, env.db))

\* lines 153-168: a str is parsed first; the parsed value is a local, the
\* caller's object is left as it was
HandleDecoded(topic, data, env) ==
    IF data.type = "str"
        THEN IF ~data.text.json
                 THEN Quiet(data)
                 ELSE [HandleBody(topic, data.text.value, env)
                           EXCEPT !.data = data]
        ELSE HandleBody(topic, data, env)

\* the handler's end once its body ended with r: an exception the body
\* raised leaves the handler only where nothing catches it
Ended(r, caught) ==
    [data |-> r.data, calls |-> r.calls, handed |-> r.handed,
     stored |-> r.stored, escaped |-> ~caught /\ r.exc # "none"]

\* variant without the try/except around the handler body
HandleSolarNoCatch(topic, data, env) ==
    Ended(HandleDecoded(topic, data, env), FALSE)

\* lines 140-317: whatever the body raises is logged, the handler returns
HandleSolar(topic, data, env) ==
    Ended(HandleDecoded(topic, data, env), TRUE)

-----------------------------------------------------------------------------
(* MQTTClient._on_message *)

NoRun ==
    [invoked |-> <<>>, received |-> <<>>, calls |-> <<>>, handed |-> <<>>,
     stored |-> <<>>, runs |-> 0, escaped |-> FALSE]

\* a callback other than handle_solar_panel_data: it returns and leaves the
\* data as it was
Plain(data) ==
    [data |-> data, calls |-> <<>>, handed |-> <<>>, stored |-> <<>>,
     escaped |-> FALSE]

\* a callback that raises: the exception leaves the callback
Raises(data) ==
    [data |-> data, calls |-> <<>>, handed |-> <<>>, stored |-> <<>>,
     escaped |-> TRUE]

\* what one callback, called with data, did, r, followed by what the later
\* ones did, rest
RunJoin(entry, data, r, runs, rest) ==
    [invoked |-> <<entry>> \o rest.invoked,
     received |-> <<data>> \o rest.received,
     calls |-> r.calls \o rest.calls,
     handed |-> r.handed \o rest.handed,
     stored |-> r.stored \o rest.stored,
     runs |-> runs + rest.runs,
     escaped |-> r.escaped \/ rest.escaped]

RECURSIVE RunHandlers(_, _, _, _, _)

\* a callback that raises ends the dispatch; otherwise the next callback
\* receives the object this one has worked on
RunRest(inv, i, topic, env, r) ==
    IF r.escaped THEN NoRun ELSE RunHandlers(inv, i+1, topic, r.data, env)

RunFrom(inv, i, topic, data, env, r, runs) ==
    RunJoin(inv[i], data, r, runs, RunRest(inv, i, topic, env, r))

\* lines 95-103: the callbacks are called in turn with the same data object;
\* a dict that handle_solar_panel_data has written to is what the next
\* callback receives
RunHandlers(inv, i, topic, data, env) ==
    IF i > Len(inv) THEN NoRun
    ELSE IF inv[i].callback = "solar"
        THEN RunFrom(inv, i, topic, data, env,
                     HandleSolar(topic, data, env), 1)
    ELSE IF inv[i].callback = "failing"
        THEN RunFrom(inv, i, topic, data, env, Raises(data), 0)
        ELSE RunFrom(inv, i, topic, data, env, Plain(data), 0)

\* variant: a text json.loads rejects is replaced by null
JsonLoadsOrNull(text) ==
    IF text.json THEN text.value ELSE PyScalar

\* lines 89-93
JsonLoadsOrRaw(text) ==
    IF text.json THEN text.value ELSE PyStr(text, FALSE)

\* the end of _on_message once its callbacks, called with data, did r
Dispatched(data, r, caught) ==
    [given |-> data.type, run |-> r,
     exc |-> IF r.escaped THEN "handler" ELSE "none",
     escaped |-> ~caught /\ r.escaped]

\* lines 84-103, which the try of line 83 encloses
OnMessageBody(cbs, topic, payload, env, caught) ==
    IF ~payload.utf8
        THEN [given |-> "none", run |-> NoRun, exc |-> "UnicodeDecodeError",
              escaped |-> ~caught]
        ELSE Dispatched(JsonLoadsOrRaw(payload.text),
                        RunHandlers(Dispatch(cbs, topic), 1, topic,
                                    JsonLoadsOrRaw(payload.text), env),
                        caught)

\* lines 81-106: run is what the callbacks did, exc what the body raised,
\* escaped whether _on_message itself raised
OnMessageRun(cbs, topic, payload, env) ==
    OnMessageBody(cbs, topic, payload, env, TRUE)

-----------------------------------------------------------------------------
(* MQTTService.publish_command *)

\* params or a payload holds a value json.dumps has no encoding for
Unserialisable(d) == \E k \in DOMAIN d : d[k] = "object"

\* the params argument: None, or a dict
NoParams == [given |-> FALSE, d |-> EmptyDict]

ParamsDict(d) == [given |-> TRUE, d |-> d]

\* Python truthiness of params: None and the empty dict are falsy
HasParams(params) == params.given /\ DOMAIN params.d # {}

\* lines 336-343: payload.update(params) lets a key of params replace a key
\* the payload already has
CommandPayload(device_id, command, params) ==
    LET base == [k \in {"command", "device_id", "timestamp"} |->
                    IF k = "command" THEN command
                    ELSE IF k = "device_id" THEN device_id
                    ELSE "now"]
    IN  IF HasParams(params)
            THEN [k \in DOMAIN base \cup DOMAIN params.d |->
                     IF k \in DOMAIN params.d THEN params.d[k] ELSE base[k]]
            ELSE base

\* line 346: f"solar/commands/{device_id}"
CommandTopic(device_id) == <<"solar", "/", "commands", "/">> \o device_id

\* publish() for a dict payload, mqtt_client.py lines 174-205: past the flag
\* test json.dumps raises for a value it cannot encode, before anything is
\* handed to the transport
PublishDict(conn, payload, outcome) ==
    IF conn /\ Unserialisable(payload)
        THEN [result |-> FALSE, issued |-> FALSE]
        ELSE Publish(conn, outcome)

CommandEnds(topic, payload, r) ==
    [result |-> r.result, issued |-> r.issued, topic |-> topic,
     payload |-> payload]

\* variant: the outcome of publish() is not what is returned
PublishCommandReportsSuccess(conn, device_id, command, params, outcome) ==
    [CommandEnds(CommandTopic(device_id),
                 CommandPayload(device_id, command, params),
                 PublishDict(conn,
                             CommandPayload(device_id, command, params),
                             outcome))
        EXCEPT !.result = TRUE]

\* lines 333-358
PublishCommand(conn, device_id, command, params, outcome) ==
    CommandEnds(CommandTopic(device_id),
                CommandPayload(device_id, command, params),
                PublishDict(conn, CommandPayload(device_id, command, params),
                            outcome))

-----------------------------------------------------------------------------
(* Inputs: payloads and collaborator outcomes *)

DeviceIds == {<<"dev1">>, <<"dev2">>}

\* params of publish_command: none, empty, an added field, fields named as
\* the payload's own, a value with no JSON encoding
CommandParams ==
    {NoParams, ParamsDict(EmptyDict),
     ParamsDict([k \in {"speed"} |-> "fast"]),
     ParamsDict([k \in {"device_id", "timestamp"} |->
                    IF k = "device_id" THEN <<"other">> ELSE "then"]),
     ParamsDict([k \in {"handle"} |-> "object"])}

MaxArrivals == 3        \* messages that arrive per behaviour
MaxMissing == 1         \* required fields a drawn sensor mapping may lack

ImageKeys == {"image", "image_path", "image_base64"}

\* keys a payload may carry although the pipeline writes them itself
LeftOverKeys == {"dl_prediction", "dl_status", "dl_confidence",
                 "dl_predicted_class", "ml_prediction", "panel_id",
                 "image_url"}

ImageChoices == [ImageKeys -> {"absent", "empty", "ref"}]

SensorDict(fields, images, leftOver) ==
    [k \in fields \cup {i \in ImageKeys : images[i] # "absent"}
           \cup (IF leftOver THEN LeftOverKeys ELSE {}) |->
        IF k \in RequiredFields THEN "v"
        ELSE IF k \in ImageKeys
            THEN (IF images[k] = "empty" THEN "" ELSE k)
        ELSE "payload"]

FieldChoices ==
    {RequiredFields \ m :
        m \in {x \in SUBSET RequiredFields : Cardinality(x) <= MaxMissing}}
    \cup {{}}

SensorDicts ==
    {SensorDict(f, i, l) : f \in FieldChoices, i \in ImageChoices,
                           l \in BOOLEAN}

FullDict ==
    SensorDict(RequiredFields, [i \in ImageKeys |-> "absent"], FALSE)

\* what a str may hold: no JSON, or the JSON text of a mapping, a list, a
\* scalar or a string
InnerValues ==
    {PyDict(FullDict), PyDict(EmptyDict), PyList(RequiredFields), PyScalar,
     PyStr(NoText, TRUE), PyStr(NoText, FALSE)}

Texts ==
    {NoText}
    \cup {JsonText(PyDict(d)) : d \in SensorDicts}
    \cup {JsonText(PyList(RequiredFields)), JsonText(PyList({})),
          JsonText(PyScalar)}
    \cup {JsonText(PyStr(NoText, FALSE))}
    \cup {JsonText(PyStr(JsonText(v), FALSE)) : v \in InnerValues}

Payloads ==
    {[utf8 |-> FALSE, text |-> NoText]}
    \cup {[utf8 |-> TRUE, text |-> t] : t \in Texts}

MLResults ==
    {[ok |-> FALSE, ml_prediction |-> None, ml_confidence |-> None,
      ml_probability |-> None]}
    \cup {[ok |-> TRUE, ml_prediction |-> p, ml_confidence |-> c[1],
           ml_probability |-> c[2]] :
            p \in {"clean", "dirty"},
            c \in {<<"conf", "probs">>, <<None, None>>}}

DLResults ==
    {[outcome |-> o, dl_prediction |-> None, dl_status |-> None,
      dl_confidence |-> None, dl_predicted_class |-> None,
      dl_probability |-> None, dl_class_probabilities |-> None] :
        o \in {"raises", "none"}}
    \cup {[outcome |-> "result", dl_prediction |-> "class", dl_status |-> st,
           dl_confidence |-> "conf", dl_predicted_class |-> "index",
           dl_probability |-> pr, dl_class_probabilities |-> pr] :
            st \in {"clean", "dirty"}, pr \in {"probs", None}}

Envs ==
    [upload : {"url", "none", "raises"},
     ml : MLResults,
     dl : DLResults,
     db : {"ok", "unavailable", "raises"}]

NominalEnv ==
    [upload |-> "url",
     ml |-> [ok |-> TRUE, ml_prediction |-> "clean", ml_confidence |-> "conf",
             ml_probability |-> "probs"],
     dl |-> [outcome |-> "none", dl_prediction |-> None, dl_status |-> None,
             dl_confidence |-> None, dl_predicted_class |-> None,
             dl_probability |-> None, dl_class_probabilities |-> None],
     db |-> "ok"]

\* the payload drawn in the client specification
ClientPayloads ==
    {[utf8 |-> TRUE, text |-> JsonText(PyDict(FullDict))]}

-----------------------------------------------------------------------------
(* MQTTClient._on_connect and _on_disconnect: the new values of             *)
(* self.connected and of the connection event                               *)

\* variant: a refused connection leaves the flag as it was
OnConnectRefusalKeepsFlag(rc, conn, event) ==
    IF rc = 0 THEN [connected |-> TRUE, event |-> TRUE]
    ELSE [connected |-> conn, event |-> event]

\* lines 59-69
OnConnectFlags(rc, conn, event) ==
    IF rc = 0 THEN [connected |-> TRUE, event |-> TRUE]
    ELSE [connected |-> FALSE, event |-> event]

\* variant: the flag is left as it was
OnDisconnectKeepsFlag(conn, event) ==
    [connected |-> conn, event |-> FALSE]

\* lines 73-74
OnDisconnectFlags(conn, event) ==
    [connected |-> FALSE, event |-> FALSE]

ReasonCodes == {0, 5}

\* lines 329-331
is_connected == connected

-----------------------------------------------------------------------------
(* State *)

NoLast ==
    [op |-> "none", topic |-> None, callback |-> None, outcome |-> None,
     result |-> FALSE, issued |-> FALSE, before |-> FALSE, changed |-> FALSE,
     acked |-> FALSE, rc |-> 0, invoked |-> <<>>, repeat |-> FALSE,
     loopAtClose |-> FALSE, payload |-> EmptyDict, device_id |-> <<>>,
     instance |-> 0, received |-> <<>>]

NoPipe ==
    [op |-> "none", topic |-> <<>>, env |-> NominalEnv, mapping |-> FALSE,
     raw |-> FALSE, given |-> "none",
     image |-> FALSE, carried |-> FALSE, lacks |-> TRUE, exc |-> "none",
     calls |-> <<>>, handed |-> <<>>, stored |-> <<>>, runs |-> 0,
     handlerEscaped |-> FALSE, escaped |-> FALSE]

InitClient ==
    /\ connected = FALSE
    /\ connection_event = FALSE
    /\ message_callbacks = <<>>
    /\ transport = "none"
    /\ loop = FALSE
    /\ loopPc = "idle"
    /\ sent = {}
    /\ connectPc = "idle"
    /\ last = NoLast
    /\ nextId = 1
    /\ rejected = {}
    /\ requested = {}
    /\ eventAtWait = FALSE
    /\ ackSinceCall = FALSE
    /\ sinceDisconnect = FALSE

\* the client after init_mqtt() and MQTTService.subscribe_to_topics()
InitSubscribed ==
    /\ connected = TRUE
    /\ connection_event = TRUE
    /\ message_callbacks =
          <<[topic |-> MQTT_TOPIC_SOLAR_PANEL, callback |-> "solar"]>>
    /\ transport = "session"
    /\ loop = TRUE
    /\ loopPc = "idle"
    /\ sent = {}
    /\ connectPc = "idle"
    /\ last = NoLast
    /\ nextId = 1
    /\ rejected = {}
    /\ requested = {MQTT_TOPIC_SOLAR_PANEL}
    /\ eventAtWait = FALSE
    /\ ackSinceCall = FALSE
    /\ sinceDisconnect = FALSE

MatchUnused ==
    /\ mTopic = <<>>
    /\ mPattern = <<>>
    /\ mResult = "none"

NoCaller == [op |-> "none", pc |-> "idle", topic |-> <<>>, callback |-> None]

NoDispatch ==
    [phase |-> "idle", topic |-> <<>>, i |-> 0, size |-> 0, invoked |-> <<>>,
     stable |-> {}]

RaceUnused ==
    /\ caller = NoCaller
    /\ dispatch = NoDispatch

\* nothing has arrived
NoInbound ==
    [arrived |-> 0, inbox |-> <<>>, running |-> 0, left |-> <<>>,
     journal |-> <<>>]

\* the threads that call get_mqtt_client() or init_mqtt() at the same time
Threads == {"t1", "t2"}

\* no thread is inside either function
NoGetters ==
    [t \in Threads |->
        [pc |-> "idle", call |-> "none", sawNone |-> FALSE, got |-> 0]]

\* get_mqtt_client() has been called once: the global holds the first
\* instance
ClientCreated ==
    /\ mqtt_client = 1
    /\ instances = 1
    /\ getters = NoGetters
    /\ inbound = NoInbound

-----------------------------------------------------------------------------
(* Caller threads *)

\* connect(), lines 123-133 and 142-144: client.connect either raises, and
\* connect() returns False, or opens a new transport connection (closing the
\* one it had, without any callback) and the caller starts the loop and waits
ConnectCall(outcome) ==
    /\ connectPc = "idle"
    /\ IF outcome = "raises"
          THEN /\ transport' = "none"
               /\ last' = [NoLast EXCEPT !.op = "connect",
                                         !.outcome = outcome,
                                         !.before = connected]
               /\ UNCHANGED <<loop, connectPc, eventAtWait, ackSinceCall>>
          ELSE /\ transport' = "awaiting"
               /\ loop' = TRUE
               /\ connectPc' = "waiting"
               /\ eventAtWait' = connection_event
               /\ ackSinceCall' = FALSE
               /\ UNCHANGED last
    /\ requested' = {}
    /\ UNCHANGED <<connected, connection_event, message_callbacks, loopPc,
                   sent, nextId, rejected, sinceDisconnect, pipe, matchVars, raceVars,
                   moduleVars, inbound>>

\* connect(), lines 136-140: the wait ends, with the event set or by timeout
ConnectReturn ==
    /\ connectPc = "waiting"
    /\ connectPc' = "idle"
    /\ last' = [NoLast EXCEPT !.op = "connect", !.outcome = "ok",
                              !.result = eventAtWait \/ ackSinceCall,
                              !.acked = ackSinceCall]
    /\ eventAtWait' = FALSE
    /\ ackSinceCall' = FALSE
    /\ UNCHANGED <<connected, connection_event, message_callbacks, transport,
                   loop, loopPc, sent, nextId, rejected, requested,
                   sinceDisconnect, pipe, matchVars, raceVars,
                   moduleVars, inbound>>

\* what disconnect() works on: the flag, the event, the transport connection
\* and the loop thread; loopAtClose tells whether the loop thread was running
\* when client.disconnect() was called
DisconnectState(conn, event, tr, lp) ==
    [connected |-> conn, event |-> event, transport |-> tr, loop |-> lp,
     loopAtClose |-> lp]

\* line 149: loop_stop() joins the loop thread
LoopStop(s) == [s EXCEPT !.loop = FALSE]

\* the flags once the transport connection tr is closed: the transport
\* calls _on_disconnect only if there was a connection
FlagsAfterClose(tr, conn, event) ==
    IF tr # "none" THEN OnDisconnectFlags(conn, event)
    ELSE [connected |-> conn, event |-> event]

\* line 150: client.disconnect() closes the transport connection if there
\* is one, and the transport then calls _on_disconnect with reason 0
ClientDisconnect(s) ==
    [connected |-> FlagsAfterClose(s.transport, s.connected, s.event).connected,
     event |-> FlagsAfterClose(s.transport, s.connected, s.event).event,
     transport |-> "none",
     loop |-> s.loop,
     loopAtClose |-> s.loop]

\* variant: the transport is closed first, the loop stopped afterwards
DisconnectCloseFirst(s) == LoopStop(ClientDisconnect(s))

\* lines 149-150
DisconnectRun(s) == ClientDisconnect(LoopStop(s))

DisconnectEnds(r) ==
    /\ loop' = r.loop
    /\ transport' = r.transport
    /\ connected' = r.connected
    /\ connection_event' = r.event
    /\ last' = [NoLast EXCEPT !.op = "disconnect",
                              !.before = connected /\ transport = "session",
                              !.repeat = (last.op = "disconnect"
                                          /\ transport = "none" /\ ~loop),
                              !.loopAtClose = r.loopAtClose]

\* disconnect(), lines 146-153; loop_stop() waits for the callback the loop
\* thread is in
Disconnect ==
    /\ loopPc = "idle"
    /\ DisconnectEnds(DisconnectRun(DisconnectState(connected,
                                                    connection_event,
                                                    transport, loop)))
    /\ sinceDisconnect' = IF connected /\ transport = "session" THEN TRUE
                          ELSE sinceDisconnect
    /\ requested' = {}
    /\ UNCHANGED <<message_callbacks, loopPc, sent, connectPc, nextId,
                   rejected, eventAtWait, ackSinceCall, pipe, matchVars, raceVars,
                   moduleVars, inbound>>

\* publish(), lines 174-205
PublishCall(outcome) ==
    /\ nextId <= MaxPublish
    /\ LET r == Publish(connected, outcome)
       IN  /\ sent' = IF r.issued THEN sent \cup {nextId} ELSE sent
           /\ last' = [NoLast EXCEPT !.op = "publish", !.outcome = outcome,
                                     !.result = r.result,
                                     !.issued = r.issued,
                                     !.before = connected]
    /\ rejected' = IF connected THEN rejected ELSE rejected \cup {nextId}
    /\ UNCHANGED requested
    /\ nextId' = nextId + 1
    /\ UNCHANGED <<connected, connection_event, message_callbacks, transport,
                   loop, loopPc, connectPc, eventAtWait, ackSinceCall,
                   sinceDisconnect, pipe, matchVars, raceVars,
                   moduleVars, inbound>>

PublishCommandEnds(r, device_id, outcome) ==
    /\ sent' = IF r.issued THEN sent \cup {nextId} ELSE sent
    /\ last' = [NoLast EXCEPT !.op = "publish_command", !.outcome = outcome,
                              !.result = r.result, !.issued = r.issued,
                              !.before = connected, !.topic = r.topic,
                              !.payload = r.payload,
                              !.device_id = device_id]

\* MQTTService.publish_command through the shared client
PublishCommandCall(device_id, params, outcome) ==
    /\ nextId <= MaxPublish
    /\ PublishCommandEnds(PublishCommand(connected, device_id, "clean",
                                         params, outcome),
                          device_id, outcome)
    /\ rejected' = IF connected THEN rejected ELSE rejected \cup {nextId}
    /\ UNCHANGED requested
    /\ nextId' = nextId + 1
    /\ UNCHANGED <<connected, connection_event, message_callbacks, transport,
                   loop, loopPc, connectPc, eventAtWait, ackSinceCall,
                   sinceDisconnect, pipe, matchVars, raceVars,
                   moduleVars, inbound>>

\* subscribe(), lines 224-247
SubscribeCall(topic, callback, outcome) ==
    /\ LET r == Subscribe(connected, message_callbacks, topic, callback,
                          outcome)
       IN  /\ message_callbacks' = r.callbacks
           /\ last' = [NoLast EXCEPT !.op = "subscribe", !.topic = topic,
                                     !.callback = callback,
                                     !.outcome = outcome,
                                     !.result = r.result,
                                     !.issued = r.issued,
                                     !.before = connected,
                                     !.changed =
                                         r.callbacks # message_callbacks]
    /\ requested' =
          IF Subscribe(connected, message_callbacks, topic, callback,
                       outcome).result
              THEN requested \cup {topic}
              ELSE requested
    /\ UNCHANGED <<connected, connection_event, transport, loop, loopPc,
                   sent, connectPc, nextId, rejected, eventAtWait, ackSinceCall,
                   sinceDisconnect, pipe, matchVars, raceVars,
                   moduleVars, inbound>>

\* unsubscribe(), lines 259-280
UnsubscribeCall(topic, outcome) ==
    /\ LET r == Unsubscribe(connected, message_callbacks, topic, outcome)
       IN  /\ message_callbacks' = r.callbacks
           /\ last' = [NoLast EXCEPT !.op = "unsubscribe", !.topic = topic,
                                     !.outcome = outcome,
                                     !.result = r.result,
                                     !.issued = r.issued,
                                     !.before = connected,
                                     !.changed =
                                         r.callbacks # message_callbacks]
    /\ requested' =
          IF Unsubscribe(connected, message_callbacks, topic, outcome).result
              THEN requested \ {topic}
              ELSE requested
    /\ UNCHANGED <<connected, connection_event, transport, loop, loopPc,
                   sent, connectPc, nextId, rejected, eventAtWait, ackSinceCall,
                   sinceDisconnect, pipe, matchVars, raceVars,
                   moduleVars, inbound>>

-----------------------------------------------------------------------------
(* The network loop thread: it runs the callbacks one after the other *)

\* _on_connect, lines 59-62 and 66-69: the broker's acknowledgment
OnConnect(rc) ==
    /\ loop
    /\ loopPc = "idle"
    /\ transport = "awaiting"
    /\ LET f == OnConnectFlags(rc, connected, connection_event)
       IN  /\ connected' = f.connected
           /\ connection_event' = f.event
    /\ IF rc = 0
          THEN /\ transport' = "session"
               /\ loopPc' = "on_connect"
               /\ ackSinceCall' = (connectPc = "waiting")
               /\ UNCHANGED eventAtWait
               /\ sinceDisconnect' = FALSE
          ELSE /\ transport' = "refused"
               /\ UNCHANGED <<loopPc, eventAtWait, ackSinceCall,
                               sinceDisconnect>>
    /\ last' = [NoLast EXCEPT !.op = "on_connect", !.rc = rc,
                              !.before = connected]
    /\ UNCHANGED <<message_callbacks, loop, sent, connectPc,
                   nextId, rejected, requested, pipe, matchVars, raceVars,
                   moduleVars, inbound>>

\* _on_connect, line 65, and _subscribe_default_topics, lines 282-289
OnConnectSubscribe(outcome) ==
    /\ loopPc = "on_connect"
    /\ loopPc' = "idle"
    /\ message_callbacks' =
          Subscribe(connected, message_callbacks, MQTT_TOPIC_SOLAR_PANEL,
                    None, outcome).callbacks
    /\ requested' =
          IF Subscribe(connected, message_callbacks, MQTT_TOPIC_SOLAR_PANEL,
                       None, outcome).result
              THEN requested \cup {MQTT_TOPIC_SOLAR_PANEL}
              ELSE requested
    /\ UNCHANGED <<connected, connection_event, transport, loop, sent,
                   connectPc, last, nextId, rejected, eventAtWait, ackSinceCall,
                   sinceDisconnect, pipe, matchVars, raceVars,
                   moduleVars, inbound>>

\* _on_disconnect, lines 71-79, when the loop finds the connection lost
OnDisconnect ==
    /\ loop
    /\ loopPc = "idle"
    /\ transport # "none"
    /\ transport' = "none"
    /\ LET f == OnDisconnectFlags(connected, connection_event)
       IN  /\ connected' = f.connected
           /\ connection_event' = f.event
    /\ last' = [NoLast EXCEPT !.op = "on_disconnect", !.rc = 1]
    /\ requested' = {}
    /\ UNCHANGED <<message_callbacks, loop, loopPc, sent, connectPc, nextId,
                   rejected, eventAtWait, ackSinceCall, sinceDisconnect,
                   pipe, matchVars, raceVars,
                   moduleVars, inbound>>

\* the loop started at line 133 dials the broker again after a loss
Reconnect ==
    /\ loop
    /\ loopPc = "idle"
    /\ transport = "none"
    /\ transport' = "awaiting"
    /\ UNCHANGED <<connected, connection_event, message_callbacks, loop,
                   loopPc, sent, connectPc, last, nextId,
                   rejected, requested, eventAtWait, ackSinceCall, sinceDisconnect,
                   pipe, matchVars, raceVars,
                   moduleVars, inbound>>

HasImageRef(d) == \E k \in ImageKeys : k \in DOMAIN d /\ d[k] \notin {None, ""}

\* the mapping a payload decodes to, if it does; raw: the payload is text
\* that is no JSON document
PayloadMapping(payload) ==
    IF ~payload.utf8 \/ ~payload.text.json
        THEN [is |-> FALSE, d |-> EmptyDict, raw |-> payload.utf8]
    ELSE LET v == payload.text.value
         IN  IF v.type = "dict" THEN [is |-> TRUE, d |-> v.d, raw |-> FALSE]
             ELSE IF v.type = "str" /\ v.text.json /\ v.text.value.type = "dict"
                 THEN [is |-> TRUE, d |-> v.text.value.d, raw |-> FALSE]
             ELSE [is |-> FALSE, d |-> EmptyDict, raw |-> FALSE]

\* what the message's run leaves in the pipeline record: a message that
\* reached no pipeline and raised nothing leaves it as it was
PipeAfter(topic, env, m, r) ==
    IF r.run.runs = 0 /\ r.exc = "none" THEN pipe
    ELSE [op |-> "message", topic |-> topic, env |-> env,
          mapping |-> m.is,
          raw |-> m.raw,
          given |-> r.given,
          image |-> m.is /\ HasImageRef(m.d),
          carried |-> m.is /\ LeftOverKeys \subseteq DOMAIN m.d,
          lacks |-> ~m.is \/ ~(RequiredFields \subseteq DOMAIN m.d),
          exc |-> r.exc,
          calls |-> r.run.calls,
          handed |-> r.run.handed,
          stored |-> r.run.stored,
          runs |-> r.run.runs,
          handlerEscaped |-> r.run.escaped,
          escaped |-> r.escaped]

OnMessageEnds(topic, payload, env, r) ==
    /\ last' = [NoLast EXCEPT !.op = "message", !.topic = topic,
                              !.invoked = r.run.invoked,
                              !.received = r.run.received]
    /\ pipe' = PipeAfter(topic, env, PayloadMapping(payload), r)

\* _on_message, lines 81-106, with the handlers it calls
OnMessage(topic, payload, env) ==
    /\ loop
    /\ loopPc = "idle"
    /\ transport = "session"
    /\ OnMessageEnds(topic, payload, env,
                     OnMessageRun(message_callbacks, topic, payload, env))
    /\ UNCHANGED <<connected, connection_event, message_callbacks, transport,
                   loop, loopPc, sent, connectPc, nextId, rejected, requested,
                   eventAtWait, ackSinceCall, sinceDisconnect, matchVars, raceVars,
                   moduleVars, inbound>>

-----------------------------------------------------------------------------
(* The same calls and the same callback taken step by step: a caller thread *)
(* inside subscribe, unsubscribe or publish, and the loop thread inside     *)
(* _on_message, each advance one access to the shared state at a time, and  *)
(* nothing in the class makes one wait for the other                        *)

\* the handler a caller registers in the step-by-step specification
RaceCallbacks == {"h1"}

\* the topics of the messages that arrive there
RaceTopics == {TopicData, TopicAlert}

RaceCalls ==
    {[op |-> "subscribe", topic |-> t, callback |-> cb] :
        t \in Patterns, cb \in RaceCallbacks \cup {None}}
    \cup {[op |-> "unsubscribe", topic |-> t, callback |-> None] :
            t \in Patterns}
    \cup {[op |-> "publish", topic |-> TopicAlert, callback |-> None]}

\* the call returns: what it leaves in last
Returned(c, outcome, result, changed) ==
    [NoLast EXCEPT !.op = c.op, !.topic = c.topic, !.callback = c.callback,
                   !.outcome = outcome, !.result = result,
                   !.issued = outcome # None, !.changed = changed]

\* lines 175-177, 225-227, 260-262: the call reads self.connected and
\* returns False at once when it is not set
FlagTest(call) ==
    /\ caller.pc = "idle"
    /\ call.op = "publish" => nextId <= MaxPublish
    /\ IF connected
          THEN /\ caller' = [op |-> call.op, pc |-> "tested",
                             topic |-> call.topic, callback |-> call.callback]
               /\ UNCHANGED last
          ELSE /\ last' = Returned(call, None, FALSE, FALSE)
               /\ UNCHANGED caller
    /\ UNCHANGED <<connected, connection_event, message_callbacks, transport,
                   loop, loopPc, sent, connectPc, nextId, rejected, requested,
                   eventAtWait, ackSinceCall, sinceDisconnect, pipe,
                   matchVars, dispatch,
                   moduleVars, inbound>>

\* lines 189-201, 231-243, 264-276: the request to
\* the transport; publish returns here, subscribe and unsubscribe return
\* here unless the transport reports success
TransportRequest(outcome) ==
    /\ caller.pc = "tested"
    /\ IF outcome = "ok" /\ caller.op # "publish"
          THEN /\ caller' = [caller EXCEPT !.pc = "requested"]
               /\ UNCHANGED last
          ELSE /\ caller' = NoCaller
               /\ last' = Returned(caller, outcome, outcome = "ok", FALSE)
    /\ IF caller.op = "publish"
          THEN /\ sent' = IF outcome # "raises" THEN sent \cup {nextId}
                          ELSE sent
               /\ nextId' = nextId + 1
          ELSE UNCHANGED <<sent, nextId>>
    /\ requested' =
          IF outcome # "ok" THEN requested
          ELSE IF caller.op = "subscribe" THEN requested \cup {caller.topic}
          ELSE IF caller.op = "unsubscribe" THEN requested \ {caller.topic}
          ELSE requested
    /\ UNCHANGED <<connected, connection_event, message_callbacks, transport,
                   loop, loopPc, connectPc, rejected, eventAtWait,
                   ackSinceCall, sinceDisconnect, pipe, matchVars, dispatch,
                   moduleVars, inbound>>

\* the registry once the call has written to it
Written(c, cbs) ==
    IF c.op = "subscribe"
        THEN IF c.callback # None THEN DictSet(cbs, c.topic, c.callback)
             ELSE cbs
        ELSE IF c.topic \in Keys(cbs) THEN DictDel(cbs, c.topic) ELSE cbs

\* the items of the registry
Items(cbs) == {cbs[i] : i \in 1..Len(cbs)}

\* lines 237-240 and 270-273: the registry is written and the call returns;
\* dispatch.stable keeps the items that were registered when the message
\* arrived and have been ever since
RegistryWrite ==
    /\ caller.pc = "requested"
    /\ message_callbacks' = Written(caller, message_callbacks)
    /\ caller' = NoCaller
    /\ last' = Returned(caller, "ok", TRUE,
                        Written(caller, message_callbacks) # message_callbacks)
    /\ dispatch' = [dispatch EXCEPT
                       !.stable = @ \cap Items(Written(caller,
                                                       message_callbacks))]
    /\ UNCHANGED <<connected, connection_event, transport, loop, loopPc,
                   sent, connectPc, nextId, rejected, requested, eventAtWait,
                   ackSinceCall, sinceDisconnect, pipe, matchVars,
                   moduleVars, inbound>>

\* lines 84-98: a message arrives; the registry is looked up for the topic
\* itself and the callback found is called
MessageArrives(topic) ==
    /\ loop
    /\ loopPc = "idle"
    /\ transport = "session"
    /\ loopPc' = "on_message"
    /\ dispatch' = [phase |-> "exact", topic |-> topic, i |-> 0, size |-> 0,
                    invoked |-> ExactPass(message_callbacks, topic),
                    stable |-> Items(message_callbacks)]
    /\ UNCHANGED <<connected, connection_event, message_callbacks, transport,
                   loop, sent, connectPc, last, nextId, rejected, requested,
                   eventAtWait, ackSinceCall, sinceDisconnect, pipe,
                   matchVars, caller,
                   moduleVars, inbound>>

\* line 101: the iteration over self.message_callbacks.items() begins
IterStart ==
    /\ dispatch.phase = "exact"
    /\ dispatch' = [dispatch EXCEPT !.phase = "iter", !.i = 1,
                                    !.size = Len(message_callbacks)]
    /\ UNCHANGED <<connected, connection_event, message_callbacks, transport,
                   loop, loopPc, sent, connectPc, last, nextId, rejected, requested,
                   eventAtWait, ackSinceCall, sinceDisconnect, pipe,
                   matchVars, caller,
                   moduleVars, inbound>>

\* _on_message returns: what it leaves in last
MessageEnds(outcome) ==
    /\ loopPc' = "idle"
    /\ dispatch' = NoDispatch
    /\ last' = [NoLast EXCEPT !.op = "message", !.topic = dispatch.topic,
                              !.invoked = dispatch.invoked,
                              !.outcome = outcome]

\* lines 101-106: the iterator's next item. A dict whose size is not what
\* it was when the iteration began makes the iterator raise RuntimeError,
\* which line 105 catches: the dispatch ends there.
IterNext ==
    /\ dispatch.phase = "iter"
    /\ IF Len(message_callbacks) # dispatch.size
          THEN MessageEnds("RuntimeError")
          ELSE IF dispatch.i > Len(message_callbacks)
              THEN MessageEnds("ok")
          ELSE /\ dispatch' =
                     [dispatch EXCEPT
                        !.i = @ + 1,
                        !.invoked =
                            IF TopicMatches(dispatch.topic,
                                            message_callbacks[dispatch.i].topic)
                                THEN Append(@,
                                   [key |-> message_callbacks[dispatch.i].topic,
                                    callback |->
                                       message_callbacks[dispatch.i].callback])
                                ELSE @]
               /\ UNCHANGED <<loopPc, last>>
    /\ UNCHANGED <<connected, connection_event, message_callbacks, transport,
                   loop, sent, connectPc, nextId, rejected, requested,
                   eventAtWait, ackSinceCall, sinceDisconnect, pipe,
                   matchVars, caller,
                   moduleVars, inbound>>

-----------------------------------------------------------------------------
(* The module-level client: get_mqtt_client, init_mqtt, close_mqtt *)

\* variant: every call makes an instance
GetClientAlwaysNew(g, n) ==
    [client |-> n + 1, instances |-> n + 1]

\* lines 338-343: the global after the call, which is what the call returns
GetClient(g, n) ==
    IF g = 0 THEN [client |-> n + 1, instances |-> n + 1]
    ELSE [client |-> g, instances |-> n]

\* an instance just made is as MQTTClient.__init__, lines 44-47, leaves it
GetEnds(r) ==
    /\ r.instances <= MaxInstances
    /\ mqtt_client' = r.client
    /\ instances' = r.instances
    /\ IF r.instances # instances
          THEN /\ connected' = FALSE
               /\ connection_event' = FALSE
               /\ message_callbacks' = <<>>
               /\ transport' = "none"
               /\ loop' = FALSE
               /\ loopPc' = "idle"
               /\ requested' = {}
          ELSE UNCHANGED <<connected, connection_event, message_callbacks,
                           transport, loop, loopPc, requested>>
    /\ last' = [NoLast EXCEPT !.op = "get_mqtt_client",
                              !.instance = r.client,
                              !.changed = r.instances # instances]

\* get_mqtt_client(), lines 338-343, called by a thread that is in no other
\* call on the client
GetMqttClient ==
    /\ connectPc = "idle"
    /\ loopPc = "idle"
    /\ GetEnds(GetClient(mqtt_client, instances))
    /\ UNCHANGED <<sent, connectPc, nextId, rejected, eventAtWait,
                   ackSinceCall, sinceDisconnect, pipe, matchVars, raceVars,
                   getters, inbound>>

CloseEnds(r) ==
    /\ loop' = r.loop
    /\ transport' = r.transport
    /\ connected' = r.connected
    /\ connection_event' = r.event
    /\ mqtt_client' = 0
    /\ last' = [NoLast EXCEPT !.op = "close_mqtt", !.changed = TRUE,
                              !.instance = mqtt_client,
                              !.loopAtClose = r.loopAtClose]

\* close_mqtt(), lines 361-367: with an instance, disconnect() and the
\* global set to None; without one, nothing
CloseMqtt ==
    /\ connectPc = "idle"
    /\ loopPc = "idle"
    /\ IF mqtt_client # 0
          THEN CloseEnds(DisconnectRun(DisconnectState(connected,
                                                       connection_event,
                                                       transport, loop)))
          ELSE /\ last' = [NoLast EXCEPT !.op = "close_mqtt"]
               /\ UNCHANGED <<loop, transport, connected, connection_event,
                               mqtt_client>>
    /\ requested' = IF mqtt_client # 0 THEN {} ELSE requested
    /\ UNCHANGED <<message_callbacks, loopPc, sent, connectPc, nextId,
                   rejected, eventAtWait, ackSinceCall, sinceDisconnect,
                   pipe, matchVars, raceVars, instances, getters,
                   inbound>>

\* the calls and callbacks of the instance the global holds
OnTheClient ==
    /\ mqtt_client # 0
    /\ \/ \E o \in {"ok", "raises"} : ConnectCall(o)
       \/ ConnectReturn
       \/ \E rc \in ReasonCodes : OnConnect(rc)
       \/ \E o \in Outcomes : OnConnectSubscribe(o)
       \/ OnDisconnect
       \/ \E t \in Patterns, cb \in Callbacks, o \in {"ok"} :
             SubscribeCall(t, cb, o)

-----------------------------------------------------------------------------
(* Specifications *)

\* topics of the messages that arrive: two under solar/panel/, the level
\* solar/panel itself, and one elsewhere
PipeTopics ==
    {TopicData, <<"solar", "/", "panel", "/", "panel1">>, TopicPanel,
     TopicAlert}

Init ==
    /\ InitClient
    /\ pipe = NoPipe
    /\ MatchUnused
    /\ RaceUnused
    /\ ClientCreated

Next ==
    \/ \E o \in {"ok", "raises"} : ConnectCall(o)
    \/ ConnectReturn
    \/ Disconnect
    \/ \E o \in Outcomes : PublishCall(o)
    \/ \E dev \in DeviceIds, ps \in CommandParams, o \in Outcomes :
          PublishCommandCall(dev, ps, o)
    \/ \E t \in Patterns, cb \in Callbacks \cup {None}, o \in Outcomes :
          SubscribeCall(t, cb, o)
    \/ \E t \in Patterns, o \in Outcomes : UnsubscribeCall(t, o)
    \/ \E rc \in ReasonCodes : OnConnect(rc)
    \/ \E o \in Outcomes : OnConnectSubscribe(o)
    \/ OnDisconnect
    \/ Reconnect
    \/ \E t \in Topics, p \in ClientPayloads : OnMessage(t, p, NominalEnv)

Spec == Init /\ [][Next]_vars

InitSpecMatch ==
    /\ InitMatch
    /\ InitClient
    /\ pipe = NoPipe
    /\ RaceUnused
    /\ ClientCreated

NextMatch == CallTopicMatches /\ UNCHANGED <<clientVars, pipe, raceVars,
                   moduleVars, inbound>>

SpecMatch == InitSpecMatch /\ [][NextMatch]_vars

\* the symbols of the topics the panel id is derived from: the segments the
\* code compares with, one other segment, and the separator
PanelSym == {"solar", "panel", "data", "status", "command", "p1", "/"}

\* line 137: the topic handle_solar_panel_data is called with
InitPanel ==
    /\ mTopic \in UNION {[1..k -> PanelSym] : k \in 1..MaxTopicLen}
    /\ mPattern = <<>>
    /\ mResult = "none"
    /\ InitClient
    /\ pipe = NoPipe
    /\ RaceUnused
    /\ ClientCreated

\* lines 173-185 applied to that topic
CallPanelId ==
    /\ mResult = "none"
    /\ mResult' = "done"
    /\ mPattern' = PanelId(mTopic)
    /\ UNCHANGED <<mTopic, clientVars, pipe, raceVars, moduleVars, inbound>>

SpecPanel == InitPanel /\ [][CallPanelId]_vars

InitPipe ==
    /\ InitSubscribed
    /\ pipe = NoPipe
    /\ MatchUnused
    /\ RaceUnused
    /\ ClientCreated

Ingest ==
    /\ pipe.op = "none"
    /\ last.op = "none"
    /\ \E t \in PipeTopics, p \in Payloads, e \in Envs : OnMessage(t, p, e)

NextPipe == Ingest

SpecPipe == InitPipe /\ [][NextPipe]_vars

\* the same client when a second handler is registered before the message
\* arrives: another callback, or handle_solar_panel_data once more, for the
\* topic solar/panel/panel1/data
NextShare ==
    \/ /\ last.op = "none"
       /\ \E cb \in {"h1", "solar"} : SubscribeCall(TopicData, cb, "ok")
    \/ /\ pipe.op = "none"
       /\ last.op # "message"
       /\ \E t \in PipeTopics, p \in Payloads : OnMessage(t, p, NominalEnv)

SpecShare == InitPipe /\ [][NextShare]_vars

-----------------------------------------------------------------------------
(* The loop thread and the messages that arrive while it is in a callback:  *)
(* the transport keeps them in the order received, and the thread started   *)
(* by loop_start() calls _on_message for one after the other.  A message is *)
(* numbered by its arrival; the journal lists the arrivals and, for each    *)
(* dispatch, its start, the collaborators called and its end.               *)

\* variant: the loop thread takes the message that arrived last
TakeNewest(inbox) ==
    [msg |-> inbox[Len(inbox)], rest |-> SubSeq(inbox, 1, Len(inbox) - 1)]

\* the message _on_message is called with next
TakeNext(inbox) == [msg |-> Head(inbox), rest |-> Tail(inbox)]

\* a message reaches the client
Arrive(topic, payload, env) ==
    /\ loop
    /\ transport = "session"
    /\ inbound.arrived < MaxArrivals
    /\ inbound' =
          [inbound EXCEPT
              !.arrived = @ + 1,
              !.inbox = Append(@, [id |-> inbound.arrived + 1,
                                   topic |-> topic, payload |-> payload,
                                   env |-> env]),
              !.journal = Append(@, [id |-> inbound.arrived + 1,
                                     what |-> "arrives"])]
    /\ UNCHANGED <<clientVars, pipe, matchVars, raceVars, moduleVars>>

\* _on_message is entered, lines 81-85
LoopTakes ==
    /\ loop
    /\ loopPc = "idle"
    /\ transport = "session"
    /\ inbound.inbox # <<>>
    /\ LET m == TakeNext(inbound.inbox).msg
       IN  inbound' =
              [inbound EXCEPT
                  !.inbox = TakeNext(inbound.inbox).rest,
                  !.running = m,
                  !.left = OnMessageRun(message_callbacks, m.topic,
                                        m.payload, m.env).run.calls,
                  !.journal = Append(@, [id |-> m.id, what |-> "begins"])]
    /\ loopPc' = "on_message"
    /\ UNCHANGED <<connected, connection_event, message_callbacks, transport,
                   loop, sent, connectPc, last, nextId, rejected, requested,
                   eventAtWait, ackSinceCall, sinceDisconnect, pipe,
                   matchVars, raceVars, moduleVars>>

\* inside a handler: the next call to the image store, a predictor or the
\* record store, each made and awaited on the loop thread
LoopCalls ==
    /\ loopPc = "on_message"
    /\ inbound.left # <<>>
    /\ inbound' =
          [inbound EXCEPT
              !.left = Tail(@),
              !.journal = Append(@, [id |-> inbound.running.id,
                                     what |-> Head(inbound.left)])]
    /\ UNCHANGED <<clientVars, pipe, matchVars, raceVars, moduleVars>>

\* _on_message returns, line 106
LoopReturns ==
    /\ loopPc = "on_message"
    /\ inbound.left = <<>>
    /\ OnMessageEnds(inbound.running.topic, inbound.running.payload,
                     inbound.running.env,
                     OnMessageRun(message_callbacks, inbound.running.topic,
                                  inbound.running.payload,
                                  inbound.running.env))
    /\ loopPc' = "idle"
    /\ inbound' =
          [inbound EXCEPT
              !.running = 0,
              !.journal = Append(@, [id |-> inbound.running.id,
                                     what |-> "ends"])]
    /\ UNCHANGED <<connected, connection_event, message_callbacks, transport,
                   loop, sent, connectPc, nextId, rejected, requested,
                   eventAtWait, ackSinceCall, sinceDisconnect,
                   matchVars, raceVars, moduleVars>>

\* the messages that arrive: a full reading that ML finds clean, one that
\* ML finds dirty with an image the DL predictor is called for, and a text
\* that is no JSON
NextQueue ==
    \/ \E p \in ClientPayloads, e \in {NominalEnv} : Arrive(TopicData, p, e)
    \/ \E p \in {[utf8 |-> TRUE,
                   text |-> JsonText(PyDict(SensorDict(RequiredFields,
                      [i \in ImageKeys |-> IF i = "image" THEN "ref"
                                           ELSE "absent"], FALSE)))]},
          e \in {[NominalEnv EXCEPT !.ml.ml_prediction = "dirty"]} :
          Arrive(TopicData, p, e)
    \/ Arrive(TopicData, [utf8 |-> TRUE, text |-> NoText], NominalEnv)
    \/ LoopTakes
    \/ LoopCalls
    \/ LoopReturns

SpecQueue == InitPipe /\ [][NextQueue]_vars

\* the client after init_mqtt() and MQTTService.subscribe_to_topics(), its
\* threads taken step by step
InitRace ==
    /\ InitSubscribed
    /\ pipe = NoPipe
    /\ MatchUnused
    /\ RaceUnused
    /\ ClientCreated

NextRace ==
    \/ \E c \in RaceCalls : FlagTest(c)
    \/ \E o \in Outcomes : TransportRequest(o)
    \/ RegistryWrite
    \/ \E t \in RaceTopics : MessageArrives(t)
    \/ IterStart
    \/ IterNext
    \/ \E rc \in ReasonCodes : OnConnect(rc)
    \/ \E o \in Outcomes : OnConnectSubscribe(o)
    \/ OnDisconnect
    \/ Reconnect

SpecRace == InitRace /\ [][NextRace]_vars

\* patterns callers subscribe to that the default topic does not cover
SessionPatterns == {TopicAlert, <<"solar", "/", "alerts", "/", "#">>}

\* the handlers callers register there: one that returns, one that raises
SessionCallbacks == {"h1", "failing"}

\* the client over several connections: callers connect, subscribe,
\* unsubscribe and disconnect while the loop thread runs the connection
\* callbacks and hands the messages to the handlers
NextSession ==
    \/ \E o \in {"ok", "raises"} : ConnectCall(o)
    \/ ConnectReturn
    \/ Disconnect
    \/ \E t \in SessionPatterns, cb \in SessionCallbacks, o \in Outcomes :
          SubscribeCall(t, cb, o)
    \/ \E t \in SessionPatterns, o \in Outcomes : UnsubscribeCall(t, o)
    \/ \E rc \in ReasonCodes : OnConnect(rc)
    \/ \E o \in Outcomes : OnConnectSubscribe(o)
    \/ OnDisconnect
    \/ Reconnect
    \/ \E t \in RaceTopics, p \in ClientPayloads : OnMessage(t, p, NominalEnv)

SpecSession == Init /\ [][NextSession]_vars

\* the process before the first get_mqtt_client()
InitModule ==
    /\ InitClient
    /\ pipe = NoPipe
    /\ MatchUnused
    /\ RaceUnused
    /\ mqtt_client = 0
    /\ instances = 0
    /\ getters = NoGetters
    /\ inbound = NoInbound

NextModule ==
    \/ GetMqttClient
    \/ CloseMqtt
    \/ OnTheClient

SpecModule == InitModule /\ [][NextModule]_vars

-----------------------------------------------------------------------------
(* get_mqtt_client() and init_mqtt() step by step: each thread reads the    *)
(* global, makes an instance if it read None, and reads the global again to *)
(* return it; nothing makes one thread wait for another. The client         *)
(* variables describe the instance the global holds.                        *)

\* line 341, in get_mqtt_client() or in the call init_mqtt() makes of it on
\* line 349: the thread reads the global and tests it for None
GetTest(t, call) ==
    /\ getters[t].pc = "idle"
    /\ getters' = [getters EXCEPT ![t] = [pc |-> "tested", call |-> call,
                                          sawNone |-> mqtt_client = 0,
                                          got |-> 0]]
    /\ UNCHANGED <<clientVars, pipe, matchVars, raceVars, mqtt_client,
                   instances, inbound>>

\* line 342: MQTTClient() makes an instance, as lines 44-47 leave it, and
\* the global is set to it
GetMake(t) ==
    /\ getters[t].pc = "tested"
    /\ getters[t].sawNone
    /\ instances < MaxInstances
    /\ instances' = instances + 1
    /\ mqtt_client' = instances + 1
    /\ getters' = [getters EXCEPT ![t].pc = "made"]
    /\ connected' = FALSE
    /\ connection_event' = FALSE
    /\ message_callbacks' = <<>>
    /\ transport' = "none"
    /\ loop' = FALSE
    /\ loopPc' = "idle"
    /\ connectPc' = "idle"
    /\ requested' = {}
    /\ eventAtWait' = FALSE
    /\ ackSinceCall' = FALSE
    /\ sinceDisconnect' = FALSE
    /\ UNCHANGED <<sent, last, nextId, rejected, pipe, matchVars, raceVars,
                   inbound>>

\* line 343: return mqtt_client reads the global once more
GetReturn(t) ==
    /\ \/ getters[t].pc = "made"
       \/ getters[t].pc = "tested" /\ ~getters[t].sawNone
    /\ getters' = [getters EXCEPT ![t].pc = "returned",
                                  ![t].got = mqtt_client]
    /\ UNCHANGED <<clientVars, pipe, matchVars, raceVars, mqtt_client,
                   instances, inbound>>

\* init_mqtt(), line 350: client.connect() on the instance the thread was
\* given, as in ConnectCall when that is the instance the global holds
InitMqttConnect(t, outcome) ==
    /\ getters[t].pc = "returned"
    /\ getters[t].call = "init_mqtt"
    /\ getters' = [getters EXCEPT ![t].pc = "connecting"]
    /\ IF getters[t].got # mqtt_client
          THEN UNCHANGED clientVars
          ELSE /\ connectPc = "idle"
               /\ IF outcome = "raises"
                     THEN /\ transport' = "none"
                          /\ last' = [NoLast EXCEPT !.op = "connect",
                                                    !.outcome = outcome,
                                                    !.before = connected]
                          /\ UNCHANGED <<loop, connectPc, eventAtWait,
                                         ackSinceCall>>
                     ELSE /\ transport' = "awaiting"
                          /\ loop' = TRUE
                          /\ connectPc' = "waiting"
                          /\ eventAtWait' = connection_event
                          /\ ackSinceCall' = FALSE
                          /\ UNCHANGED last
               /\ requested' = {}
               /\ UNCHANGED <<connected, connection_event, message_callbacks,
                              loopPc, sent, nextId, rejected,
                              sinceDisconnect>>
    /\ UNCHANGED <<pipe, matchVars, raceVars, mqtt_client, instances,
                   inbound>>

NextGet ==
    \/ \E t \in Threads, call \in {"get_mqtt_client", "init_mqtt"} :
          GetTest(t, call)
    \/ \E t \in Threads : GetMake(t)
    \/ \E t \in Threads : GetReturn(t)
    \/ \E t \in Threads, o \in {"ok", "raises"} : InitMqttConnect(t, o)
    \/ ConnectReturn
    \/ \E rc \in ReasonCodes : OnConnect(rc)
    \/ \E o \in Outcomes : OnConnectSubscribe(o)

SpecGet == InitModule /\ [][NextGet]_vars

-----------------------------------------------------------------------------
(* Properties of the pipeline, under SpecPipe *)

DLFieldNames == {"dl_prediction", "dl_status", "dl_confidence"}

MLDirty == pipe.env.ml.ok /\ pipe.env.ml.ml_prediction = "dirty"

\* C1: in every record handed to persistence the DL fields dl_prediction,
\* dl_status and dl_confidence are present, and one of them is non-null only
\* if the ML stage returned "dirty" and the payload carried a non-empty image
\* reference; a non-null DL field holds what the DL predictor returned, never
\* a value the payload brought; ml_prediction holds the ML result (null when
\* the ML predictor gave none).
C1_DLFieldsOnlyWhenDirtyWithImage ==
    \A i \in 1..Len(pipe.handed) :
        LET rec == pipe.handed[i]
        IN  /\ DLFieldNames \subseteq DOMAIN rec
            /\ (\E f \in DLFieldNames : rec[f] # None)
                   => (MLDirty /\ pipe.image)
            /\ \A f \in DLFieldNames : rec[f] \in {None, pipe.env.dl[f]}
            /\ "ml_prediction" \in DOMAIN rec
            /\ rec["ml_prediction"] = pipe.env.ml.ml_prediction

\* a payload that brought its own DL fields, ML "dirty", no image reference:
\* the record handed to persistence has the DL fields null and ML "dirty"
C1_Witness ==
    /\ pipe.op = "message"
    /\ pipe.carried
    /\ MLDirty
    /\ ~pipe.image
    /\ Len(pipe.handed) = 1
    /\ \A f \in DLFieldNames : pipe.handed[1][f] = None
    /\ pipe.handed[1]["ml_prediction"] = "dirty"

\* C6: a message whose payload lacks one of the required fields is dropped:
\* no image upload, no ML call, no DL call, and no record handed to or kept
\* by persistence.
C6_MissingFieldDropped ==
    (pipe.op = "message" /\ pipe.lacks)
        => (pipe.calls = <<>> /\ pipe.handed = <<>> /\ pipe.stored = <<>>)

\* a mapping without all the required fields reached the handler
C6_Witness ==
    /\ pipe.op = "message"
    /\ pipe.mapping
    /\ pipe.lacks
    /\ pipe.runs = 1
    /\ pipe.calls = <<>>

\* C7: whatever the payload is and whichever collaborator fails, neither
\* handle_solar_panel_data nor _on_message lets an exception out.
C7_NothingCrossesTheBoundary ==
    ~pipe.handlerEscaped /\ ~pipe.escaped

\* the image store, the DL predictor and the record store all raised during
\* one message, and the handler was run to its end
C7_Witness ==
    /\ pipe.op = "message"
    /\ pipe.env.upload = "raises"
    /\ pipe.env.dl.outcome = "raises"
    /\ pipe.env.db = "raises"
    /\ pipe.calls = <<"upload", "ml", "dl", "store">>
    /\ ~pipe.escaped

-----------------------------------------------------------------------------
(* Properties of _topic_matches, under SpecMatch *)

HasHash(s) == \E i \in 1..Len(s) : s[i] = "#"

HasWildcard(s) == \E i \in 1..Len(s) : s[i] = "#" \/ s[i] = "+"

\* same number of segments, and each pattern segment is "+" or the topic's
SegmentWise(tp, pp) ==
    /\ Len(tp) = Len(pp)
    /\ \A i \in 1..Len(pp) : pp[i] = <<"+">> \/ pp[i] = tp[i]

\* C3: for a pattern without "#", _topic_matches(T, P) is true exactly when
\* T and P have the same number of "/"-separated segments and every pattern
\* segment is "+" or equals the topic segment at its position.
C3_NoHashMatchesSegmentWise ==
    (mResult # "none" /\ ~HasHash(mPattern))
        => (mResult = "True"
               <=> SegmentWise(Split(mTopic), Split(mPattern)))

\* a two-segment pattern with a "+" was matched by a topic that has another
\* segment at the place of the "+"
C3_Witness ==
    /\ mResult = "True"
    /\ ~HasHash(mPattern)
    /\ Len(Split(mPattern)) = 2
    /\ \E i \in 1..2 : Split(mPattern)[i] = <<"+">>
                       /\ Split(mTopic)[i] # <<"+">>

\* p1/.../pk/# with k >= 1 literal segments
HashAfterLiterals(pp) ==
    /\ Len(pp) >= 2
    /\ pp[Len(pp)] = <<"#">>
    /\ \A i \in 1..(Len(pp) - 1) : ~HasWildcard(pp[i])

\* the first Len(pp) - 1 segments of the topic are those of the pattern
PrefixEqual(tp, pp) ==
    /\ Len(tp) >= Len(pp) - 1
    /\ \A i \in 1..(Len(pp) - 1) : tp[i] = pp[i]

\* C4: for a pattern p1/.../pk/# with literal segments, _topic_matches(T, P)
\* is true exactly when the first k segments of T are p1..pk, whether T has
\* no segment or some segments after them.
C4_HashMatchesEveryExtension ==
    (mResult # "none" /\ HashAfterLiterals(Split(mPattern)))
        => (mResult = "True"
               <=> PrefixEqual(Split(mTopic), Split(mPattern)))

-----------------------------------------------------------------------------
(* Properties of the client, under Spec *)

WasInvoked(e) ==
    \E i \in 1..Len(last.invoked) :
        last.invoked[i] = [key |-> e.topic, callback |-> e.callback]

\* C2: when one handler is registered under the topic of a message and
\* another under a different pattern that matches the topic, the message
\* invokes both.
C2_ExactAndWildcardBothInvoked ==
    last.op = "message" =>
        \A i, j \in 1..Len(message_callbacks) :
            (/\ message_callbacks[i].topic = last.topic
             /\ message_callbacks[j].topic # last.topic
             /\ TopicMatches(last.topic, message_callbacks[j].topic))
                => (/\ WasInvoked(message_callbacks[i])
                    /\ WasInvoked(message_callbacks[j]))

\* a message on solar/panel/panel1/data with "h1" registered under that
\* topic and "h2" under solar/panel/#: both were invoked
C2_Witness ==
    /\ last.op = "message"
    /\ last.topic = TopicData
    /\ WasInvoked([topic |-> TopicData, callback |-> "h1"])
    /\ WasInvoked([topic |-> MQTT_TOPIC_SOLAR_PANEL, callback |-> "h2"])

\* C5: a connect() call during which no acknowledgment with reason 0 was
\* processed, because the wait timed out or because the transport's connect
\* raised, returns False, and is_connected() is False when it returns.
C5_UnacknowledgedConnectFails ==
    (last.op = "connect" /\ ~last.acked) => (~last.result /\ ~connected)

\* C8: subscribe returns True exactly when the client is connected and the
\* transport accepts the request, and a handler given with it is then the
\* one registered for the pattern; called on a client that is not connected
\* it returns False, issues no request and leaves the registry as it was;
\* when the transport rejects the request it returns False and leaves the
\* registry as it was.
C8_SubscribeRegistersOnlyOnSuccess ==
    last.op = "subscribe" =>
        /\ last.result <=> (last.before /\ last.outcome = "ok")
        /\ ~last.before => (~last.issued /\ ~last.changed)
        /\ last.outcome # "ok" => ~last.changed
        /\ (last.result /\ last.callback # None)
               => (/\ last.topic \in Keys(message_callbacks)
                   /\ DictGet(message_callbacks, last.topic) = last.callback)

\* a subscribe on a connected client that the transport accepted has put
\* its handler in the registry
C8_Witness ==
    /\ last.op = "subscribe"
    /\ last.result
    /\ last.changed
    /\ DictGet(message_callbacks, last.topic) = last.callback

\* C9: publish on a client that is not connected returns False and hands
\* nothing to the transport, and no message refused that way is ever among
\* the messages handed to the transport, also after the client has connected
\* again.
C9_UnconnectedPublishIsDiscarded ==
    /\ (last.op = "publish" /\ ~last.before)
           => (~last.result /\ ~last.issued)
    /\ rejected \cap sent = {}

\* a publish was refused while the client was not connected, and the client
\* holds a session since
C9_Witness ==
    /\ rejected # {}
    /\ connected
    /\ transport = "session"
    /\ loopPc = "idle"

\* C10: from the return of disconnect() on a client that held a session
\* until the next acknowledgment with reason 0, is_connected() is False and
\* every publish, subscribe and unsubscribe returns False.
C10_DisconnectedUntilNextConnect ==
    sinceDisconnect =>
        /\ ~connected
        /\ last.op \in {"publish", "subscribe", "unsubscribe"}
               => ~last.result

\* a publish was called after disconnect() had returned on a connected
\* client
C10_Witness ==
    /\ sinceDisconnect
    /\ last.op = "publish"
    /\ last.outcome = "ok"
    /\ ~last.result

\* C11: disconnect() is idempotent and ordered.  Every call leaves the
\* client without transport connection and without loop thread; a call made
\* on a client that has neither (a second call, or a client that never
\* connected) changes nothing, in particular not the connected flag, the
\* event or the registry; and no call closes the transport while the loop
\* thread is still running.
C11_DisconnectIdempotent ==
    /\ [](last.op = "disconnect" => ~last.loopAtClose)
    /\ [][Disconnect => (transport' = "none" /\ ~loop')]_vars
    /\ [][(Disconnect /\ transport = "none" /\ ~loop)
             => UNCHANGED <<connected, connection_event, message_callbacks,
                            transport, loop>>]_vars

\* disconnect() was called again right after disconnect() had returned
C11_Witness ==
    /\ last.op = "disconnect"
    /\ last.repeat
    /\ transport = "none"
    /\ ~loop

InvokedKeys == {last.invoked[i].key : i \in 1..Len(last.invoked)}

\* C12: unsubscribe on a connected client whose request the transport
\* accepts returns True and leaves no registration for the pattern; on a
\* client that is not connected it returns False, sends no request and
\* leaves the registry as it was.  A message invokes handlers only through
\* patterns that are registered, and a pattern that is not registered
\* becomes registered only by a successful subscribe of that pattern: so
\* after the unsubscribe no message invokes the pattern's handler.
C12_UnsubscribeRemoves ==
    /\ [](last.op = "unsubscribe" =>
            /\ (last.before /\ last.outcome = "ok")
                   => (/\ last.result
                       /\ last.topic \notin Keys(message_callbacks))
            /\ ~last.before
                   => (~last.result /\ ~last.issued /\ ~last.changed))
    /\ [](last.op = "message"
             => InvokedKeys \subseteq Keys(message_callbacks))
    /\ [][\A k \in Patterns :
            (k \notin Keys(message_callbacks)
             /\ k \in Keys(message_callbacks'))
                => (/\ last'.op = "subscribe"
                    /\ last'.topic = k
                    /\ last'.result)]_vars

\* an unsubscribe on a connected client has removed a registration
C12_Witness ==
    /\ last.op = "unsubscribe"
    /\ last.result
    /\ last.changed
    /\ last.topic \notin Keys(message_callbacks)


-----------------------------------------------------------------------------
(* Failure isolation in the pipeline, under SpecPipe *)

\* a mapping with all the required fields reached handle_solar_panel_data
ValidMessage == pipe.op = "message" /\ pipe.mapping /\ ~pipe.lacks

MLFieldNames == {"ml_prediction", "ml_confidence", "ml_probability"}

\* the record reached the persistence step as a message does whose stages
\* all succeeded: it is handed to the record store once, and where the
\* application runs without a record store there is none to hand it to
ReachedPersistence ==
    Len(pipe.handed) = (IF pipe.env.db = "unavailable" THEN 0 ELSE 1)

UploadFailed == pipe.image /\ pipe.env.upload \in {"none", "raises"}

StoreCalls == Cardinality({i \in 1..Len(pipe.calls) : pipe.calls[i] = "store"})

\* the record handed over is the finished one: every stage before the store
\* call is done, every field a stage writes is in it, and the metadata too
HandedComplete(rec) ==
    /\ pipe.calls[Len(pipe.calls)] = "store"
    /\ DLFieldNames \cup {"ml_prediction", "ml_confidence"} \subseteq DOMAIN rec
    /\ {"panel_id", "timestamp", "topic"} \subseteq DOMAIN rec
    /\ rec["topic"] = pipe.topic
    /\ rec["panel_id"] = PanelId(pipe.topic)
    /\ (pipe.image /\ pipe.env.upload = "url") => rec["image_url"] = "url"

\* C16 as stated: every message that decodes to a mapping with the six
\* required fields leads to exactly one call to the record store, the last
\* call of the pipeline, and nothing is raised.
C16_ExactlyOneStoreCall ==
    ValidMessage
        => /\ StoreCalls = 1
           /\ Len(pipe.handed) = 1
           /\ HandedComplete(pipe.handed[1])
           /\ pipe.exc = "none"
           /\ ~pipe.handlerEscaped

\* C16, amended: for every message that decodes to a mapping with the six
\* required fields, whatever the upload, ML and DL stages return or raise,
\* handle_solar_panel_data makes exactly one call to the record store when
\* the application has one, after all the stages and with the finished
\* record, and no call when it has none; a call that fails is not made
\* again, keeps nothing, and raises nothing out of the handler.
C16_OneStoreCallWhereAStoreIs ==
    ValidMessage
        => /\ StoreCalls = (IF pipe.env.db = "unavailable" THEN 0 ELSE 1)
           /\ Len(pipe.handed) = StoreCalls
           /\ \A i \in 1..Len(pipe.handed) : HandedComplete(pipe.handed[i])
           /\ pipe.env.db = "raises" => pipe.stored = <<>>
           /\ pipe.env.db = "ok" => pipe.stored = pipe.handed
           /\ pipe.exc = "none"
           /\ ~pipe.handlerEscaped

\* the upload raised, the DL predictor raised and the one store call raised
C16_Witness ==
    /\ ValidMessage
    /\ pipe.env.upload = "raises"
    /\ pipe.env.dl.outcome = "raises"
    /\ pipe.env.db = "raises"
    /\ StoreCalls = 1
    /\ pipe.calls[Len(pipe.calls)] = "store"
    /\ Len(pipe.handed) = 1
    /\ pipe.stored = <<>>

-----------------------------------------------------------------------------
(* Properties of publish_command, under Spec *)

\* the transport took the message of the last call
TransportTookIt == last.issued /\ last.outcome = "ok"

\* C17: publish_command(deviceId, command, params) returns true exactly when
\* the shared client handed one message to the transport and the transport
\* took it, and that message is addressed to solar/commands/<deviceId>; it
\* returns false, with nothing handed to the transport, when the client is
\* not connected or the payload cannot be encoded, and false when the
\* transport refuses the message or raises.
C17_PublishCommandReturnsPublishOutcome ==
    last.op = "publish_command"
        => /\ last.result <=> TransportTookIt
           /\ ~last.before => (~last.result /\ ~last.issued)
           /\ Unserialisable(last.payload) => (~last.result /\ ~last.issued)
           /\ last.outcome = "raises" => ~last.result
           /\ Len(last.topic) = 4 + Len(last.device_id)
           /\ <<last.topic[1], last.topic[2], last.topic[3], last.topic[4]>>
                  = <<"solar", "/", "commands", "/">>
           /\ \A i \in 1..Len(last.device_id) :
                  last.topic[4 + i] = last.device_id[i]
           /\ (nextId - 1) \in sent <=> last.issued

\* a command for dev2 whose params name a device_id of their own went out
\* to solar/commands/dev2 and the call returned true
C17_Witness ==
    /\ last.op = "publish_command"
    /\ last.result
    /\ last.issued
    /\ last.device_id = <<"dev2">>
    /\ last.topic = <<"solar", "/", "commands", "/", "dev2">>
    /\ last.payload["device_id"] = <<"other">>
    /\ sent # {}

-----------------------------------------------------------------------------
(* The connected flag and the connection events, under Spec *)

\* the step is a connection event: an acknowledgment or a disconnect event
\* run by the loop, or the disconnect event that closing a transport
\* connection from disconnect() runs
ConnectionEvent ==
    \/ \E rc \in ReasonCodes : OnConnect(rc)
    \/ OnDisconnect
    \/ Disconnect /\ transport # "none"

\* C18: is_connected() is true exactly when the most recent connection event
\* is an acknowledgment with reason 0: an acknowledgment with reason 0 makes
\* it true, an acknowledgment with another reason makes it false, every
\* disconnect event makes it false, no other step changes it, and it is false
\* before the first event.
C18_IsConnectedFollowsLastEvent ==
    /\ [](last.op = "none" => ~is_connected)
    /\ [](last.op = "on_connect" => (is_connected <=> last.rc = 0))
    /\ [](last.op = "on_disconnect" => ~is_connected)
    /\ [][(Disconnect /\ transport # "none") => ~is_connected']_vars
    /\ [][(is_connected' # is_connected) => ConnectionEvent]_vars

\* a refused acknowledgment was processed on a client whose flag an earlier
\* reason-0 acknowledgment had set (its event is still set): the flag is down
C18_Witness ==
    /\ last.op = "on_connect"
    /\ last.rc # 0
    /\ connection_event
    /\ ~is_connected

\* C19: while the loop thread is inside _on_connect for a reason-0
\* acknowledgment and has not yet issued the default-topic subscription
\* request, the connected event is not signalled and no connect() call has
\* returned true on that acknowledgment.
C19_SubscriptionRequestedBeforeReady ==
    loopPc = "on_connect"
        => /\ ~connection_event
           /\ ~(last.op = "connect" /\ last.result /\ last.acked)

-----------------------------------------------------------------------------
(* The threads' accesses to the shared state, under SpecRace *)

\* a caller is between its read of the connected flag and its return
CallerInside == caller.pc # "idle"

\* the loop thread is between its first and its last read of the registry
\* for one message
LoopInRegistry == dispatch.phase \in {"exact", "iter"}

\* C20: the loop thread is never inside its reads of the registry for a
\* message while a caller is inside subscribe or unsubscribe, and the
\* connected flag is never given another value while a caller is inside
\* subscribe, unsubscribe or publish.
C20_SharedStateMutuallyExclusive ==
    /\ [](~(/\ CallerInside
            /\ caller.op \in {"subscribe", "unsubscribe"}
            /\ LoopInRegistry))
    /\ [][CallerInside => connected' = connected]_vars

-----------------------------------------------------------------------------
(* The module-level client, under SpecModule *)

\* C21: an instance is made only by a get_mqtt_client() that finds the
\* global empty; as long as close_mqtt() is not called the global keeps that
\* instance and get_mqtt_client() returns it; close_mqtt() on an instance
\* stops its loop, closes its transport connection and empties the global;
\* close_mqtt() on an empty global changes nothing.
C21_SingletonUntilClosed ==
    /\ [](last.op = "get_mqtt_client"
            => (last.instance # 0 /\ last.instance = mqtt_client))
    /\ [](last.op = "close_mqtt"
            => /\ mqtt_client = 0
               /\ last.changed => (transport = "none" /\ ~loop))
    /\ [][(mqtt_client # 0 /\ mqtt_client' # 0)
             => mqtt_client' = mqtt_client]_vars
    /\ [][instances' # instances
             => /\ mqtt_client = 0
                /\ last'.op = "get_mqtt_client"
                /\ instances' = instances + 1
                /\ mqtt_client' = instances']_vars
    /\ [][(mqtt_client = 0 /\ mqtt_client' = 0)
             => UNCHANGED <<connected, connection_event, message_callbacks,
                            transport, loop, instances>>]_vars

\* the second instance, made after a close_mqtt(), was returned again by a
\* later get_mqtt_client() while the client was connected
C21_Witness ==
    /\ last.op = "get_mqtt_client"
    /\ ~last.changed
    /\ last.instance = 2
    /\ mqtt_client = 2
    /\ connected

-----------------------------------------------------------------------------
(* One handler per pattern, under Spec *)

\* C22: no pattern is in the registry twice; after a successful subscribe
\* with a handler the registry holds that handler for the pattern, whatever
\* it held before; and every handler a message invokes is the one the
\* registry holds for its pattern, so a handler that was replaced is not
\* invoked any more.
C22_OneHandlerPerPattern ==
    /\ \A i, j \in 1..Len(message_callbacks) :
          message_callbacks[i].topic = message_callbacks[j].topic => i = j
    /\ (last.op = "subscribe" /\ last.result /\ last.callback # None)
          => /\ last.topic \in Keys(message_callbacks)
             /\ DictGet(message_callbacks, last.topic) = last.callback
    /\ last.op = "message"
          => \A n \in 1..Len(last.invoked) :
                /\ last.invoked[n].key \in Keys(message_callbacks)
                /\ last.invoked[n].callback =
                       DictGet(message_callbacks, last.invoked[n].key)

\* the pattern registered first, before solar/panel/#, has just been given
\* the handler h2 by a subscribe that changed the registry: h2 took the
\* place of the handler the pattern had
C22_Witness ==
    /\ last.op = "subscribe"
    /\ last.result
    /\ last.changed
    /\ last.topic = TopicData
    /\ last.callback = "h2"
    /\ message_callbacks =
          <<[topic |-> TopicData, callback |-> "h2"],
            [topic |-> MQTT_TOPIC_SOLAR_PANEL, callback |-> "h1"]>>

\* C23: for one message, the handlers called after the lookup of the topic
\* itself are those of patterns that contain + or #, so that no registered
\* pattern has its handler invoked twice for the message.
C23_EachHandlerAtMostOnce ==
    last.op = "message"
        => /\ \A m, n \in 1..Len(last.invoked) :
                 last.invoked[m].key = last.invoked[n].key => m = n
           /\ \A n \in 2..Len(last.invoked) :
                 HasWildcard(last.invoked[n].key)

\* the positions of the calls to one collaborator during the message
CallsOf(name) == {i \in 1..Len(pipe.calls) : pipe.calls[i] = name}

\* C24: the DL predictor is called for a message exactly when the ML predictor
\* was called for it and returned "dirty" and the payload carried a non-empty
\* image reference; every DL call comes after the ML call, and there is no
\* more than one DL call per run of the handler.
C24_DLCalledIffDirtyWithImage ==
    pipe.op = "message"
        => /\ (CallsOf("dl") # {})
                  <=> (CallsOf("ml") # {} /\ MLDirty /\ pipe.image)
           /\ \A i \in CallsOf("dl") : \E j \in CallsOf("ml") : j < i
           /\ Cardinality(CallsOf("dl")) <= pipe.runs

\* ML "dirty" and an image reference: one DL call, made after the ML call
C24_Witness ==
    /\ pipe.op = "message"
    /\ MLDirty
    /\ pipe.image
    /\ pipe.runs = 1
    /\ pipe.env.dl.outcome = "result"
    /\ CallsOf("ml") = {2}
    /\ CallsOf("dl") = {3}

\* C25: a payload that is text but no JSON document reaches every handler
\* whose pattern matches the topic as the text itself, and
\* handle_solar_panel_data drops it: no image upload, no predictor call, no
\* record handed to or kept by persistence, and no exception, neither inside
\* _on_message nor out of it.
C25_RawTextHandedThenDiscarded ==
    (pipe.op = "message" /\ pipe.raw)
        => /\ pipe.given = "str"
           /\ \A i \in 1..Len(message_callbacks) :
                  TopicMatches(last.topic, message_callbacks[i].topic)
                      => WasInvoked(message_callbacks[i])
           /\ pipe.calls = <<>> /\ pipe.handed = <<>> /\ pipe.stored = <<>>
           /\ pipe.exc = "none"
           /\ ~pipe.handlerEscaped /\ ~pipe.escaped

\* text that is no JSON document was handed to handle_solar_panel_data, which
\* ran and called none of its collaborators
C25_Witness ==
    /\ pipe.op = "message"
    /\ pipe.raw
    /\ pipe.given = "str"
    /\ pipe.runs = 1
    /\ WasInvoked([topic |-> MQTT_TOPIC_SOLAR_PANEL, callback |-> "solar"])
    /\ pipe.calls = <<>>

-----------------------------------------------------------------------------
(* The dispatch of one message while callers write to the registry, under   *)
(* SpecRace                                                                 *)

\* C26: when _on_message returns, every item of the registry whose pattern
\* matches the message's topic and that was registered from the arrival of
\* the message to that return has had its handler invoked for the message,
\* whatever subscribe and unsubscribe calls went on in between.
C26_StableHandlersAllInvoked ==
    [][(dispatch.phase = "iter" /\ dispatch'.phase = "idle")
          => \A e \in dispatch.stable :
                TopicMatches(dispatch.topic, e.topic)
                    => \E n \in 1..Len(last'.invoked) :
                          last'.invoked[n] =
                              [key |-> e.topic, callback |-> e.callback]]_vars

-----------------------------------------------------------------------------
(* The registry across connections, under SpecSession *)

\* C27: once the callback of a reason-0 acknowledgment that found the client
\* disconnected has run to its end and the transport has accepted what it
\* requested, every pattern the registry holds has been requested from the
\* broker on the new connection.
C27_RegistryRequestedAgain ==
    (/\ last.op = "on_connect"
     /\ last.rc = 0
     /\ last.before = FALSE
     /\ loopPc = "idle"
     /\ MQTT_TOPIC_SOLAR_PANEL \in requested)
        => Keys(message_callbacks) \subseteq requested

-----------------------------------------------------------------------------
(* The connection state after connect() has returned, under Spec *)

\* the last call was a connect() whose wait ended by timeout
TimedOut == last.op = "connect" /\ last.outcome = "ok" /\ ~last.result

\* C28: when connect() has just returned False because its wait timed out,
\* is_connected() is False and no callback run on the loop thread can make it
\* True: in particular an acknowledgment that arrives next leaves it False.
C28_NoConnectionAfterTimeout ==
    /\ [](TimedOut => ~is_connected)
    /\ [][TimedOut => ~is_connected']_vars

\* C29: whatever acknowledgment and disconnect callbacks have run, the
\* connection event is set only while the connected flag is true, so that a
\* connect() whose wait finds the event set returns True on a client whose
\* is_connected() is True.
C29_EventSetOnlyWhenConnected ==
    connection_event => is_connected

-----------------------------------------------------------------------------
(* Handlers that raise, under SpecSession *)

\* C30: when a handler has raised during the dispatch of a message, every
\* registered handler whose pattern matches the message's topic has still
\* been invoked for it.
C30_RaisingHandlerCancelsNothing ==
    (last.op = "message" /\ pipe.op = "message" /\ pipe.exc = "handler")
        => \A i \in 1..Len(message_callbacks) :
              TopicMatches(last.topic, message_callbacks[i].topic)
                  => WasInvoked(message_callbacks[i])

-----------------------------------------------------------------------------
(* The panel id, under SpecPanel *)

\* the segments of the topic the panel id was derived from
Segs == Split(mTopic)

\* the topic begins with solar/panel and has a third segment
UnderSolarPanel ==
    Len(Segs) >= 3 /\ Segs[1] = <<"solar">> /\ Segs[2] = <<"panel">>

LastReserved == Segs[Len(Segs)] \in Reserved

\* C31: the panel id is the third segment of a topic that begins with
\* solar/panel and has one; of any other topic it is the last segment, or
\* the segment before it when the last one is data, status or command, and
\* "unknown" only for a topic of a single segment.
C31_PanelIdByOrderedRule ==
    mResult = "done"
        => mPattern =
              IF UnderSolarPanel THEN Segs[3]
              ELSE IF Len(Segs) = 1 THEN <<"unknown">>
              ELSE IF ~LastReserved THEN Segs[Len(Segs)]
              ELSE Segs[Len(Segs) - 1]

\* C31, amended: the segment before a reserved last segment is taken only
\* from a topic of three segments or more; a topic of two segments whose
\* last one is reserved gives "unknown", as a topic of a single segment
\* does.
C31_PanelIdUnknownForShortReserved ==
    mResult = "done"
        => /\ UnderSolarPanel => mPattern = Segs[3]
           /\ (~UnderSolarPanel /\ Len(Segs) >= 2 /\ ~LastReserved)
                  => mPattern = Segs[Len(Segs)]
           /\ (~UnderSolarPanel /\ Len(Segs) >= 3 /\ LastReserved)
                  => mPattern = Segs[Len(Segs) - 1]
           /\ (Len(Segs) = 1 \/ (Len(Segs) = 2 /\ LastReserved))
                  => mPattern = <<"unknown">>

\* the topic p1/data gave "unknown"
C31_Witness ==
    /\ mResult = "done"
    /\ mTopic = <<"p1", "/", "data">>
    /\ mPattern = <<"unknown">>

-----------------------------------------------------------------------------
(* The panel id of the messages the solar/panel/# subscription brings,      *)
(* under SpecPipe                                                           *)

\* C32: a message for which handle_solar_panel_data was invoked through the
\* solar/panel/# registration has a topic of three segments or more that
\* begins with solar/panel, and the panel_id of the record it hands to
\* persistence is the third segment of that topic.
C32_PanelIdIsThirdSegment ==
    (pipe.op = "message" /\ pipe.runs >= 1)
        => /\ Len(Split(pipe.topic)) >= 3
           /\ Split(pipe.topic)[1] = <<"solar">>
           /\ Split(pipe.topic)[2] = <<"panel">>
           /\ \A i \in 1..Len(pipe.handed) :
                  pipe.handed[i]["panel_id"] = Split(pipe.topic)[3]

\* a record with panel_id panel1 was handed over for solar/panel/panel1/data
C32_Witness ==
    /\ pipe.op = "message"
    /\ pipe.topic = TopicData
    /\ pipe.runs = 1
    /\ Len(pipe.handed) = 1
    /\ pipe.handed[1]["panel_id"] = <<"panel1">>

-----------------------------------------------------------------------------
(* ML says dirty, DL says clean, under SpecPipe                             *)

\* the DL predictor was called for a record ML found dirty and answered
\* clean, and the record was handed to persistence
Disagreement ==
    /\ pipe.op = "message"
    /\ MLDirty
    /\ pipe.image
    /\ pipe.env.dl.outcome = "result"
    /\ pipe.env.dl.dl_status = "clean"
    /\ Len(pipe.handed) >= 1

\* the keys a record has whether or not the two predictions agree: those
\* of the payload and those the pipeline writes for every message
RecordKeys ==
    RequiredFields \cup ImageKeys \cup LeftOverKeys
    \cup {"image_url", "ml_prediction", "ml_confidence", "ml_probability",
          "dl_prediction", "dl_status", "dl_confidence",
          "dl_predicted_class", "dl_probability", "dl_class_probabilities",
          "panel_id", "timestamp", "topic"}

BothPredictionsKept ==
    \A i \in 1..Len(pipe.handed) :
        /\ pipe.handed[i]["ml_prediction"] = "dirty"
        /\ pipe.handed[i]["dl_status"] = "clean"

\* C33 as stated: on a disagreement the record keeps ml_prediction = dirty
\* with dl_status = clean and carries a field that marks the disagreement
C33_DisagreementMarkedInRecord ==
    Disagreement
        => /\ BothPredictionsKept
           /\ \A i \in 1..Len(pipe.handed) :
                  DOMAIN pipe.handed[i] \ RecordKeys # {}

\* C33 (amended): on a disagreement the record handed to persistence keeps
\* ml_prediction = dirty together with dl_status = clean, neither
\* overwritten by the other, and the pipeline adds no field that marks the
\* disagreement: the record has the keys it would have had on agreement.
C33_DisagreementKeptUnmarked ==
    Disagreement
        => /\ BothPredictionsKept
           /\ \A i \in 1..Len(pipe.handed) :
                  DOMAIN pipe.handed[i] \subseteq RecordKeys

C33_Witness ==
    /\ Disagreement
    /\ Len(pipe.stored) = 1
    /\ pipe.stored[1]["ml_prediction"] = "dirty"
    /\ pipe.stored[1]["dl_status"] = "clean"

-----------------------------------------------------------------------------
(* Keys of the payload named as the pipeline's own, under SpecPipe          *)

PredictionKeys ==
    {"ml_prediction", "ml_confidence", "ml_probability",
     "dl_prediction", "dl_status", "dl_confidence",
     "dl_predicted_class", "dl_probability", "dl_class_probabilities"}

\* C34: in every record handed to persistence panel_id, timestamp and topic
\* are those of this message, and no ml_* or dl_* prediction field holds
\* the value the inbound payload supplied under that key.
C34_PipelineFieldsNotFromPayload ==
    \A i \in 1..Len(pipe.handed) :
        /\ pipe.handed[i]["panel_id"] = PanelId(pipe.topic)
        /\ pipe.handed[i]["timestamp"] = "now"
        /\ pipe.handed[i]["topic"] = pipe.topic
        /\ \A k \in PredictionKeys \cap DOMAIN pipe.handed[i] :
               pipe.handed[i][k] # "payload"

-----------------------------------------------------------------------------
(* The payload of publish_command, under Spec                               *)

\* C35: the payload publish_command hands to the transport carries the command and the
\* device_id of the call and the timestamp the publisher set, whatever
\* keys params holds.
C35_ParamsReplaceNoCommandField ==
    (last.op = "publish_command" /\ last.issued)
        => /\ last.payload["command"] = "clean"
           /\ last.payload["device_id"] = last.device_id
           /\ last.payload["timestamp"] = "now"

-----------------------------------------------------------------------------
(* subscribe() without a handler, under Spec                                *)

\* the default subscription of a successful connect has just been made
DefaultSubscribeStep == loopPc = "on_connect" /\ loopPc' = "idle"

\* C36: subscribe(pattern) without a handler leaves the registry as it was,
\* whether a caller makes the call or _on_connect makes it for the default
\* topic: the handler a pattern has is kept, and a pattern that has none
\* gets no entry.
C36_SubscribeWithoutHandlerKeepsRegistry ==
    /\ []((last.op = "subscribe" /\ last.callback = None) => ~last.changed)
    /\ [][DefaultSubscribeStep => message_callbacks' = message_callbacks]_vars

\* a handler registered for solar/panel/# in an earlier session is still
\* there after the connection was lost, made again and the default
\* subscription requested again
C36_Witness ==
    /\ last.op = "on_connect"
    /\ last.rc = 0
    /\ loopPc = "idle"
    /\ MQTT_TOPIC_SOLAR_PANEL \in requested
    /\ MQTT_TOPIC_SOLAR_PANEL \in Keys(message_callbacks)
    /\ DictGet(message_callbacks, MQTT_TOPIC_SOLAR_PANEL) = "h1"

-----------------------------------------------------------------------------
(* The module-level client under concurrent calls, under SpecGet            *)

HasReturned(t) == getters[t].pc \in {"returned", "connecting"}

\* C37: whatever the interleaving of the threads inside get_mqtt_client()
\* and init_mqtt(), one MQTTClient instance at most is made while
\* close_mqtt() is not called, and every thread is given that instance.
C37_OneInstanceForEveryCaller ==
    /\ instances <= 1
    /\ \A t \in Threads : HasReturned(t) => getters[t].got = 1

-----------------------------------------------------------------------------
(* What each handler of one message is called with, under SpecShare         *)

\* C38: every handler invoked for a message is called with the payload as
\* it was decoded, which is what the first one is called with: nothing a
\* handler has written to it reaches the handler called next.
C38_EachHandlerReceivesDecodedPayload ==
    last.op = "message"
        => \A i \in 1..Len(last.received) :
               last.received[i] = last.received[1]

-----------------------------------------------------------------------------
(* One message at a time, in arrival order, under SpecQueue                 *)

\* what the loop thread did, without the arrivals
Work == SelectSeq(inbound.journal, LAMBDA e : e.what # "arrives")

\* the messages whose record was handed to persistence, in that order
StoreOrder ==
    LET st == SelectSeq(inbound.journal, LAMBDA e : e.what = "store")
    IN  [i \in 1..Len(st) |-> st[i].id]

\* C39: the messages are dispatched one at a time and in the order they
\* arrived: a dispatch begins only after the one before it has ended, with
\* every predictor call and the persistence call of a message between its
\* begin and its end, so that the records are persisted in arrival order.
C39_OneMessageAtATimeInArrivalOrder ==
    /\ \A i, j \in 1..Len(Work) : i < j => Work[i].id <= Work[j].id
    /\ \A j \in 2..Len(Work) :
          Work[j].what = "begins" => Work[j-1].what = "ends"
    /\ \A i, j \in 1..Len(StoreOrder) : i < j => StoreOrder[i] < StoreOrder[j]
    /\ (loopPc = "on_message") <=>
          (Len(Work) > 0 /\ Work[Len(Work)].what # "ends")

\* the second of three messages arrived while the first was being handled,
\* before its ML call; the records of the first and of the second were
\* handed to persistence in that order
C39_Witness ==
    /\ Len(inbound.journal) >= 8
    /\ inbound.journal[2] = [id |-> 1, what |-> "begins"]
    /\ inbound.journal[3] = [id |-> 2, what |-> "arrives"]
    /\ inbound.journal[4] = [id |-> 1, what |-> "ml"]
    /\ Len(StoreOrder) >= 2
    /\ StoreOrder[1] = 1
    /\ StoreOrder[2] = 2
    /\ inbound.arrived = 3

=============================================================================
